---------------------------- MODULE Spec2Model ----------------------------
(***************************************************************************)
(* A model of the turbo-tasks engine root (TurboTasks, manager.rs): the    *)
(* task table, the three call caches, the schedule jobs with their         *)
(* in-flight counters and completion event, the notification queue and     *)
(* the background jobs.  The Task type (task.rs) and the slot type         *)
(* (slot.rs) are not part of the sources at hand; their operations are     *)
(* modelled from the natural-language specification and are marked so.     *)
(***************************************************************************)
EXTENDS Integers, Sequences, FiniteSets, TLC

(***************************************************************************)
(* Bounds of the model.                                                    *)
(***************************************************************************)
MaxTasks == 3      \* task ids that can be allocated
MaxRoots == 2      \* tasks spawned from outside the manager
MaxJobs == 2       \* schedule jobs of one task that can exist at the same time
MaxBackground == 2 \* background jobs that can exist at the same time
MaxCalls == 3      \* calls of cached_call and further calls of schedule in one behaviour
MaxRequests == 1   \* invalidations from outside in one behaviour
NumCallers == 2    \* threads that call cached_call concurrently
NumKeys == 2       \* distinct keys per call cache
MaxVal == 1        \* slot values are 0..MaxVal
MaxArgs == 1       \* arguments given in one native_call or dynamic_call
MaxInvalidates == 2 \* invalidate() calls on the one task of SpecInval
IdBits == 2        \* bits of next_task_id in SpecIds, standing for the 32 of AtomicU32
MaxTypes == 4      \* task types that tasks given to Stats::add have or refer to
MaxAdds == 4       \* calls of Stats::add in one behaviour
MaxRefs == 2       \* references of one task given to Stats::add
MergeTypes == 3    \* task types of the tasks added before Stats::merge
MaxBuffer == 1     \* file contents are the buffers 0..MaxBuffer
MaxReaders == 2    \* tasks that read the slot of a FileContent
MaxEvents == 3     \* file system events the watcher thread receives in one behaviour
MaxReads == 2      \* calls of read and read_dir in one behaviour
MaxPayload == 1    \* the numbers in the payload of a value behind &dyn MagicAny: 0..MaxPayload
Retries == 10      \* with_retry: for i in 0..10

TaskIds == 1..MaxTasks
JobIds == TaskIds \X (1..MaxJobs)
Callers == 1..NumCallers
BgIds == 1..MaxBackground
Keys == 1..NumKeys
Vals == 0..MaxVal

\* The value types a task body writes, in call order, each with the slot mode
\* its #[turbo_tasks::value] attribute declares.
SlotMode == <<"shared", "new">>
Slots == DOMAIN SlotMode

\* The three call caches of TurboTasks.
CacheNames == {"native", "resolve", "trait"}

\* The TaskInput values a call is given, by what the manager and the
\* generated code ask of them: a concrete value of the type the parameter
\* has, a concrete value of another type, a reference to the output of a
\* task, and the empty input.
InputKinds == <<"Usize", "String", "TaskOutput", "Nothing">>
ArgLists == UNION {[1..n -> {InputKinds[i] : i \in DOMAIN InputKinds}] : n \in 0..MaxArgs}

\* The parameters of the native function the calls name: double(x: usize).
Params == <<"Usize">>

\* The cache key (func, inputs.clone()) of an argument list: keys are equal
\* exactly when the lists are; argument lists are numbered by length, then
\* position by position.
RECURSIVE Shorter(_)
Shorter(n) ==
    IF n = 0 THEN 0
    ELSE Shorter(n - 1) + Cardinality([1..(n - 1) -> DOMAIN InputKinds])

RECURSIVE Rank(_)
Rank(inputs) ==
    IF inputs = <<>> THEN 0
    ELSE LET n == Len(inputs)
             i == CHOOSE x \in DOMAIN InputKinds : InputKinds[x] = inputs[n]
         IN Rank(SubSeq(inputs, 1, n - 1)) * Len(InputKinds) + (i - 1)

KeyOf(inputs) == Shorter(Len(inputs)) + Rank(inputs) + 1

\* The inputs a key of a call cache was made of.
InputsOf(k) == CHOOSE inputs \in ArgLists : KeyOf(inputs) = k

\* The keys the call caches can hold.
CacheKeys == Keys \cup {KeyOf(inputs) : inputs \in ArgLists}

\* No task / no value.
NoTask == 0
NoVal == -1

VARIABLES
    next_task_id,               \* TurboTasks.next_task_id
    memory_tasks,               \* keys of TurboTasks.memory_tasks
    cache,                      \* native_task_cache, resolve_task_cache, trait_task_cache
    currently_scheduled_tasks,  \* TurboTasks.currently_scheduled_tasks
    scheduled_tasks,            \* TurboTasks.scheduled_tasks
    start,                      \* TurboTasks.start is Some
    last_update,                \* count held by TurboTasks.last_update, NoVal for None
    kind,                       \* Task kind per id
    state,                      \* Task execution state per id
    dirty,                      \* Task pending re-run flag per id
    output,                     \* Task output per id
    slots,                      \* Task slot values per id, NoVal for a slot not created
    dependents,                 \* per slot, the tasks that read it
    dependencies,               \* per task, the slots its last execution read
    children,                   \* Task child edges per id
    active_parents,             \* Task active-parent count per id
    jobs,                       \* the spawned schedule jobs and their position
    calls,                      \* the threads inside cached_call or run_once, and their position
    background,                 \* the background jobs and their position
    budget,                     \* calls and requests the environment may still issue
    hist,                       \* record of what happened, read by the properties only
    chain,                      \* the outputs of the tasks a resolve reads
    resolving,                  \* a call of resolve and its position
    listener,                   \* a call of wait_done and its position
    stats,                      \* Stats.tasks, per bucket its count and references
    merge_call,                 \* a call of Stats::merge and how it ended
    tree,                       \* a call of Stats::treeify and its position
    node,                       \* the slot a FileContent constructor writes, and the last write
    watch,                      \* DiskFileSystem: the invalidator maps and the watcher thread
    magic,                      \* two type-erased values and what was computed of them
    retry                       \* a call of with_retry and its position

vars == <<next_task_id, memory_tasks, cache, currently_scheduled_tasks, scheduled_tasks,
          start, last_update, kind, state, dirty, output, slots, dependents,
          dependencies, children, active_parents, jobs, calls, background, budget, hist,
          chain, resolving, listener, stats, merge_call, tree, node, watch, magic, retry>>

cacheVars == <<next_task_id, memory_tasks, cache>>
counterVars == <<currently_scheduled_tasks, scheduled_tasks, start, last_update>>
taskVars == <<kind, state, dirty, output>>
slotVars == <<slots, dependents, dependencies>>
gcVars == <<children, active_parents, background>>
statsVars == <<stats, merge_call, tree>>
libVars == <<watch, magic, retry>>
pureVars == <<chain, resolving, statsVars, node, libVars>>
engineVars == <<cacheVars, counterVars, taskVars, slotVars, gcVars, jobs, calls, budget, hist,
                listener>>

(***************************************************************************)
(* Schedule jobs.  A job is created by a call of TurboTasks::schedule and  *)
(* walks through the statements of that function; pc names the statement  *)
(* it executes next.  caller is the thread that called schedule and that   *)
(* continues only when schedule has returned (pc past "count").            *)
(***************************************************************************)
External == <<"ext", 0>>
JobThread(j) == <<"job", j>>
CallThread(c) == <<"call", c>>

NoWrite == [slot |-> 0, equal |-> FALSE, replaced |-> FALSE, notified |-> {}]

FreeJob == [pc |-> "free", task |-> NoTask, caller |-> External, total |-> 0,
            notify |-> <<>>, ok |-> TRUE, wrote |-> 0, reads |-> {}, last |-> NoWrite,
            granted |-> <<>>, covered |-> {}, called |-> {}]

FreeBg == [pc |-> "free", op |-> "none", tasks |-> {}, notified |-> FALSE]

FreeCall == [pc |-> "idle", parent |-> NoTask, map |-> "native", key |-> 1,
             via |-> "none", present |-> FALSE, id |-> NoTask, result |-> NoTask,
             value |-> "none"]

FreeJobIds(t) == {n \in 1..MaxJobs : jobs[<<t, n>>].pc = "free"}

\* schedule() has not returned yet to the thread that called it.
InSchedule(j) == jobs[j].pc \in {"inc", "set_start", "count"}

\* A schedule job between its increment and its decrement of the counter.
InFlight(j) == jobs[j].pc \in {"set_start", "count", "spawned", "body", "notify", "dec"}

\* The jobs of task t that are running its body.
Running(t) == {j \in JobIds : jobs[j].task = t /\ jobs[j].pc = "body"}

\* A thread is inside a schedule() call it made.
Blocked(who) == \E j \in JobIds : InSchedule(j) /\ jobs[j].caller = who

\* The jobs after a call schedule(t) by thread who.
Scheduled(jb, t, who) ==
    LET n == CHOOSE x \in 1..MaxJobs :
                 /\ jb[<<t, x>>].pc = "free"
                 /\ \A y \in 1..MaxJobs : jb[<<t, y>>].pc = "free" => x <= y
    IN [jb EXCEPT ![<<t, n>>] = [FreeJob EXCEPT !.pc = "inc", !.task = t, !.caller = who]]

\* The model has room for one more schedule job of task t.
CanSchedule(t) == FreeJobIds(t) # {}

\* The references of the specification: to a slot of a task, and to the
\* output of a task.
Direct(t, i) == <<"Direct", t, i>>
TaskOutput(t) == <<"TaskOutput", t>>

\* No resolve has been called.
NotResolving == [pc |-> "idle", path |-> <<>>, end |-> Direct(1, 1),
                 current |-> Direct(1, 1), hops |-> 0]

\* No wait_done has been called.
NoListener == [pc |-> "idle", busy |-> FALSE, fresh |-> FALSE, value |-> NoVal]

\* TurboTasks::new()
EngineInit ==
    /\ listener = NoListener
    /\ next_task_id = 1
    /\ memory_tasks = {}
    /\ cache = [m \in CacheNames |-> [k \in CacheKeys |-> NoTask]]
    /\ currently_scheduled_tasks = 0
    /\ scheduled_tasks = 0
    /\ start = FALSE
    /\ last_update = NoVal
    /\ kind = [t \in TaskIds |-> "none"]
    /\ state = [t \in TaskIds |-> "none"]
    /\ dirty = [t \in TaskIds |-> FALSE]
    /\ output = [t \in TaskIds |-> "none"]
    /\ slots = [t \in TaskIds |-> [i \in Slots |-> NoVal]]
    /\ dependents = [t \in TaskIds |-> [i \in Slots |-> {}]]
    /\ dependencies = [t \in TaskIds |-> {}]
    /\ children = [t \in TaskIds |-> {}]
    /\ active_parents = [t \in TaskIds |-> 0]
    /\ jobs = [j \in JobIds |-> FreeJob]
    /\ calls = [c \in Callers |-> FreeCall]
    /\ background = [b \in BgIds |-> FreeBg]
    /\ hist = [execs |-> [t \in TaskIds |-> 0],
               due |-> [t \in TaskIds |-> 0],
               asked |-> [t \in TaskIds |-> FALSE],
               reran |-> [t \in TaskIds |-> FALSE],
               spared |-> {},
               evicted |-> {},
               dropped |-> [t \in TaskIds |-> {}],
               reported |-> 0,
               quiet |-> TRUE,
               mapped |-> [m \in CacheNames |-> [k \in CacheKeys |-> {}]],
               returned |-> [m \in CacheNames |-> [k \in CacheKeys |-> {}]]]

\* TaskStats::default()
DefaultTaskStats == [count |-> 0, references |-> [r \in {} |-> 0]]

\* No merge and no treeify have been called.
NoMerge == [pc |-> "idle", select |-> {}, before |-> [ty \in {} |-> DefaultTaskStats]]
NoTree == [pc |-> "idle", queue |-> <<>>, task_placement |-> [ty \in {} |-> 0],
           group |-> <<>>]

\* Stats::new()
\* Option: None, Some(v).
None == <<"None">>
Some(v) == <<"Some", v>>

\* A slot nothing has been written to, read by no task.
NoNode == [content |-> None, dependents |-> {}, scheduled |-> {},
           write |-> [fn |-> "none", created |-> None, previous |-> None,
                      dependents |-> {}, replaced |-> FALSE, notified |-> {}]]

\* The keys of the invalidator maps: a path in lower case.  A path is the
\* tuple of its components under the root of the file system; the directory
\* the root lies in is the path of the component "..".
FsPaths == {<<>>, <<"a">>, <<"A">>, <<"a", "b">>, <<"b">>}
Outside == <<"..">>

\* char::to_lowercase on a component.
to_lowercase(component) == IF component = "A" THEN "a" ELSE component

\* path_to_key(path): path.to_string_lossy().to_lowercase()
path_to_key(path) == [i \in DOMAIN path |-> to_lowercase(path[i])]

FsKeys == {path_to_key(path) : path \in FsPaths}

\* DiskFileSystemVc::new and the watcher thread as it is spawned: empty maps
\* and empty batches.  The round fields record what the last round did.
NoWatch == [pc |-> "recv", invalidators |-> {}, dir_invalidators |-> {},
            batched_invalidate_path |-> {}, batched_invalidate_path_dir |-> {},
            batched_invalidate_path_and_children |-> {},
            batched_invalidate_path_and_children_dir |-> {},
            events |-> 0, reads |-> 0,
            round |-> [created |-> {}, held |-> {}, removed |-> {},
                       invoked |-> [k \in FsKeys |-> 0], done |-> FALSE]]

NoMagic == [pc |-> "none", type_id |-> <<>>, a |-> None, b |-> None,
            eq |-> None, cmp |-> None, hash |-> None]
NoRetry == [pc |-> "none", result |-> None, i |-> 0, seen |-> <<>>, returned |-> None]

LibInit ==
    /\ watch = NoWatch
    /\ magic = NoMagic
    /\ retry = NoRetry

StatsInit ==
    /\ stats = [ty \in {} |-> DefaultTaskStats]
    /\ merge_call = NoMerge
    /\ tree = NoTree

Init ==
    /\ EngineInit
    /\ StatsInit
    /\ node = NoNode
    /\ LibInit
    /\ budget = [calls |-> MaxCalls, requests |-> MaxRequests]
    /\ chain = [t \in TaskIds |-> Direct(t, 1)]
    /\ resolving = NotResolving

(***************************************************************************)
(* Task (task.rs is not among the sources): the execution state machine of *)
(* the specification, Scheduled -> Executing -> {Done, Errored}, with the  *)
(* Dirty -> Scheduled edge and the pending re-run flag.                    *)
(***************************************************************************)

\* Task::execution_started: only a Scheduled task starts executing.
execution_started(t) == state[t] = "Scheduled"

\* A Task that drops the requests arriving while it executes.
make_dirty_idle_only(t) ==
    IF kind[t] # "once" /\ state[t] \in {"Done", "Errored"} THEN "schedule" ELSE "ignore"

\* A Task that lets requests invalidate Once tasks like any other task.
make_dirty_any_kind(t) ==
    IF state[t] \in {"Done", "Errored"} THEN "schedule"
    ELSE IF state[t] = "Executing" THEN "flag"
    ELSE "ignore"

\* What a request to run t again (an invalidator firing, a changed dependency)
\* does: a Once task is never invalidated, a finished task is scheduled, an
\* executing task gets its re-run flag set, a task waiting to run stays as it is.
make_dirty(t) ==
    IF kind[t] = "once" THEN "ignore"
    ELSE IF state[t] \in {"Done", "Errored"} THEN "schedule"
    ELSE IF state[t] = "Executing" THEN "flag"
    ELSE "ignore"

\* A task is an external GC root: it was spawned from outside the manager.
ExternalRoot(t) == kind[t] \in {"root", "once"}

\* The model has room for one more task spawned from outside.
CanSpawn ==
    /\ next_task_id <= MaxTasks
    /\ Cardinality({t \in memory_tasks : ExternalRoot(t)}) < MaxRoots

\* The state of a task whose execution completed with result ok.
Finished(ok) == IF ok THEN "Done" ELSE "Errored"

(***************************************************************************)
(* TurboTasks::get_free_task_id, spawn_root_task, spawn_once_task.         *)
(***************************************************************************)
\* The history after an execution of task t has been caused: by its first
\* scheduling, or by a request that found it finished.
Caused(h, t) == [h EXCEPT !.due[t] = @ + 1]

\* The history after a request to run task t arrived while it was executing:
\* the first such request of an execution causes one further execution.
Asked(h, t) ==
    IF kind[t] # "once" /\ ~h.asked[t]
    THEN [h EXCEPT !.asked[t] = TRUE, !.due[t] = @ + 1]
    ELSE h

\* The history after a request to run task t: what it causes follows from
\* the state it finds the task in.
Requested(h, t) ==
    CASE kind[t] = "once" -> h
      [] state[t] \in {"Done", "Errored"} -> Caused(h, t)
      [] state[t] = "Executing" -> Asked(h, t)
      [] OTHER -> h

get_free_task_id == next_task_id

NewTask(id, k, st) ==
    /\ memory_tasks' = memory_tasks \cup {id}
    /\ kind' = [kind EXCEPT ![id] = k]
    /\ state' = [state EXCEPT ![id] = st]
    /\ dirty' = [dirty EXCEPT ![id] = FALSE]
    /\ output' = [output EXCEPT ![id] = "none"]

spawn_root_task ==
    /\ CanSpawn
    /\ LET id == get_free_task_id IN
        /\ next_task_id' = next_task_id + 1
        /\ NewTask(id, "root", "Scheduled")
        /\ jobs' = Scheduled(jobs, id, External)
        /\ hist' = Caused(hist, id)
    /\ UNCHANGED <<cache, counterVars, slotVars, gcVars, calls, budget, listener, pureVars>>

spawn_once_task ==
    /\ CanSpawn
    /\ LET id == get_free_task_id IN
        /\ next_task_id' = next_task_id + 1
        /\ NewTask(id, "once", "Scheduled")
        /\ jobs' = Scheduled(jobs, id, External)
        /\ hist' = Caused(hist, id)
    /\ UNCHANGED <<cache, counterVars, slotVars, gcVars, calls, budget, listener, pureVars>>

(***************************************************************************)
(* TurboTasks::schedule, the part that runs in the calling thread.         *)
(***************************************************************************)
\* A test of the count after the increment, as if fetch_add returned it.
was_zero_after(previous) == previous + 1 = 0

\* fetch_add(1, ..) == 0: fetch_add returns the count before the increment.
was_zero(previous) == previous = 0

\* currently_scheduled_tasks.fetch_add(1) == 0
ScheduleInc(j) ==
    /\ jobs[j].pc = "inc"
    /\ currently_scheduled_tasks' = currently_scheduled_tasks + 1
    /\ jobs' = [jobs EXCEPT ![j].pc =
                    IF was_zero(currently_scheduled_tasks) THEN "set_start" ELSE "count"]
    /\ UNCHANGED <<cacheVars, scheduled_tasks, start, last_update, taskVars, slotVars, gcVars,
                   calls, budget, hist, listener, pureVars>>

\* *self.start.lock().unwrap() = Some(Instant::now())
ScheduleSetStart(j) ==
    /\ jobs[j].pc = "set_start"
    /\ start' = TRUE
    /\ jobs' = [jobs EXCEPT ![j].pc = "count"]
    /\ UNCHANGED <<cacheVars, currently_scheduled_tasks, scheduled_tasks, last_update,
                   taskVars, slotVars, gcVars, calls, budget, hist, listener, pureVars>>

\* self.scheduled_tasks.fetch_add(1); Builder::new().spawn(..)
ScheduleCount(j) ==
    /\ jobs[j].pc = "count"
    /\ scheduled_tasks' = scheduled_tasks + 1
    /\ jobs' = [jobs EXCEPT ![j].pc = "spawned"]
    /\ UNCHANGED <<cacheVars, currently_scheduled_tasks, start, last_update,
                   taskVars, slotVars, gcVars, calls, budget, hist, listener, pureVars>>

(***************************************************************************)
(* Background jobs: TurboTasks::schedule_background_job and the two jobs   *)
(* it is given.  Task::remove_tasks and Task::deactivate_tasks (task.rs)   *)
(* are not among the sources and follow the specification: the first       *)
(* decrements active-parent counts, the second evicts the tasks whose      *)
(* count is still zero and that are no external GC root.                   *)
(***************************************************************************)
\* The model has room for one more background job.
CanBackground(bg) == \E b \in BgIds : bg[b].pc = "free"

\* Builder::new().spawn(async move { .. job.await })
schedule_background_job(bg, op, tasks) ==
    LET b == CHOOSE x \in BgIds :
                 /\ bg[x].pc = "free"
                 /\ \A y \in BgIds : bg[y].pc = "free" => x <= y
    IN [bg EXCEPT ![b] = [pc |-> "check", op |-> op, tasks |-> tasks, notified |-> FALSE]]

\* A manager whose deactivate request spawns no job.
schedule_nothing(bg, tasks) == bg

\* TurboTasks::schedule_deactivate_tasks(tasks)
schedule_deactivate_tasks(bg, tasks) == schedule_background_job(bg, "deactivate", tasks)

\* TurboTasks::schedule_remove_tasks(tasks)
schedule_remove_tasks(bg, tasks) == schedule_background_job(bg, "remove", tasks)

\* self.event.notify(usize::MAX): every registered listener is notified.
Notified(bg) ==
    [b \in BgIds |-> IF bg[b].pc \in {"recheck", "await"}
                     THEN [bg[b] EXCEPT !.notified = TRUE]
                     ELSE bg[b]]

\* if self.currently_scheduled_tasks.load(..) != 0
BgCheck(b) ==
    /\ background[b].pc = "check"
    /\ background' = [background EXCEPT ![b].pc =
                          IF currently_scheduled_tasks # 0 THEN "listen" ELSE "run"]
    /\ UNCHANGED <<cacheVars, counterVars, taskVars, slotVars, children, active_parents,
                   jobs, calls, budget, hist, listener, pureVars>>

\* let listener = self.event.listen()
BgListen(b) ==
    /\ background[b].pc = "listen"
    /\ background' = [background EXCEPT ![b].pc = "recheck"]
    /\ UNCHANGED <<cacheVars, counterVars, taskVars, slotVars, children, active_parents,
                   jobs, calls, budget, hist, listener, pureVars>>

\* A job that awaits its listener without a second look at the counter.
await_always(count) == TRUE

\* The second self.currently_scheduled_tasks.load(..) != 0, made after the
\* listener has been registered.
in_flight_after_listen(count) == count # 0

\* if self.currently_scheduled_tasks.load(..) != 0 { listener.await }
BgRecheck(b) ==
    /\ background[b].pc = "recheck"
    /\ background' = [background EXCEPT ![b].pc =
                          IF in_flight_after_listen(currently_scheduled_tasks)
                          THEN "await" ELSE "run"]
    /\ UNCHANGED <<cacheVars, counterVars, taskVars, slotVars, children, active_parents,
                   jobs, calls, budget, hist, listener, pureVars>>

\* listener.await returns once the event has been notified.
BgAwait(b) ==
    /\ background[b].pc = "await"
    /\ background[b].notified
    /\ background' = [background EXCEPT ![b].pc = "run"]
    /\ UNCHANGED <<cacheVars, counterVars, taskVars, slotVars, children, active_parents,
                   jobs, calls, budget, hist, listener, pureVars>>

\* schedule_remove_tasks(tasks) called at any moment; the set of tasks is
\* empty, so the job itself leaves the task table as it is.
BackgroundCall ==
    /\ budget.calls > 0
    /\ CanBackground(background)
    /\ budget' = [budget EXCEPT !.calls = @ - 1]
    /\ background' = schedule_remove_tasks(background, {})
    /\ UNCHANGED <<cacheVars, counterVars, taskVars, slotVars, children, active_parents,
                   jobs, calls, hist, listener, pureVars>>

\* A deactivation that does not look at the count again.
StillListed(t) == TRUE

\* The active-parent count of a task listed for deactivation is still zero.
StillZero(t) == active_parents[t] = 0

\* Task::remove_tasks(tasks, tt): each count goes down by one, and the tasks
\* left without a parent are handed to a deactivate job.
BgRemove(b) ==
    LET tasks == background[b].tasks \cap memory_tasks
        zero == {t \in tasks : active_parents[t] = 1 /\ ~ExternalRoot(t)}
        done == [background EXCEPT ![b] = FreeBg]
    IN
    /\ background[b].pc = "run"
    /\ background[b].op = "remove"
    /\ active_parents' = [t \in TaskIds |->
                              IF t \in tasks /\ active_parents[t] > 0
                              THEN active_parents[t] - 1 ELSE active_parents[t]]
    /\ background' = IF zero # {} THEN schedule_deactivate_tasks(done, zero) ELSE done
    /\ UNCHANGED <<cacheVars, counterVars, taskVars, slotVars, children, jobs, calls,
                   budget, hist, listener, pureVars>>

\* Task::deactivate_tasks(tasks, tt): the tasks whose count is still zero
\* leave the task table and the call caches, and their children lose a parent.
BgDeactivate(b) ==
    LET tasks == background[b].tasks \cap memory_tasks
        evict == {t \in tasks : StillZero(t) /\ ~ExternalRoot(t)}
        orphans == UNION {children[t] : t \in evict}
        done == [background EXCEPT ![b] = FreeBg]
    IN
    /\ background[b].pc = "run"
    /\ background[b].op = "deactivate"
    /\ memory_tasks' = memory_tasks \ evict
    /\ kind' = [t \in TaskIds |-> IF t \in evict THEN "none" ELSE kind[t]]
    /\ state' = [t \in TaskIds |-> IF t \in evict THEN "none" ELSE state[t]]
    /\ cache' = [m \in CacheNames |-> [k \in Keys |->
                     IF cache[m][k] \in evict THEN NoTask ELSE cache[m][k]]]
    /\ children' = [t \in TaskIds |-> IF t \in evict THEN {} ELSE children[t]]
    /\ background' = IF orphans # {} THEN schedule_remove_tasks(done, orphans) ELSE done
    /\ hist' = [hist EXCEPT !.evicted = @ \cup evict, !.spared = @ \cup (tasks \ evict)]
    /\ UNCHANGED <<next_task_id, counterVars, dirty, output, slotVars, active_parents, jobs,
                   calls, budget, listener, pureVars>>

(***************************************************************************)
(* TurboTasks::schedule, the spawned job.                                  *)
(***************************************************************************)
\* A job that runs the body whatever execution_started returned.
RunsBodyAlways(started) == TRUE

\* Whether the job runs the body, given what execution_started returned.
RunsBody(started) == started

\* A job that returns when there is nothing to execute.
return_without_execution(job) == FreeJob

\* if let Some(execution) = execution { .. }: without an execution the job
\* goes on to the fetch_sub that follows the block.
skip_execution(job) == [job EXCEPT !.pc = "dec"]

\* with_task_and_tt(task_id, |task| if task.execution_started(..) {..})
JobStart(j) ==
    LET t == jobs[j].task IN
    /\ jobs[j].pc = "spawned"
    /\ t \in memory_tasks
    /\ IF RunsBody(execution_started(t))
       THEN /\ state' = [state EXCEPT ![t] = "Executing"]
            /\ dirty' = [dirty EXCEPT ![t] = FALSE]
            /\ jobs' = [jobs EXCEPT ![j].pc = "body"]
            /\ hist' = [hist EXCEPT !.execs[t] = @ + 1, !.due[t] = @ - 1,
                                    !.reran[t] = hist.asked[t], !.asked[t] = FALSE]
       ELSE /\ dirty' = [dirty EXCEPT ![t] =
                            @ \/ (state[t] = "Executing" /\ kind[t] # "once")]
            /\ jobs' = [jobs EXCEPT ![j] = skip_execution(@)]
            /\ hist' = IF state[t] = "Executing" THEN Asked(hist, t) ELSE hist
            /\ UNCHANGED state
    /\ UNCHANGED <<cacheVars, counterVars, kind, output, slotVars, gcVars, calls, budget,
                   listener, pureVars>>

(***************************************************************************)
(* Slots.  The value macro generates, per slot mode, the slot method that  *)
(* writes a value into the next slot of the current task; the Slot type    *)
(* itself (slot.rs) is not among the sources and follows the               *)
(* specification's compare-on-write policies.                              *)
(***************************************************************************)
\* A value macro that generates the comparing update for every slot mode.
SlotMethodAlwaysCompare(mode) == "compare_and_update_shared"

\* A value macro that generates the unconditional update for every slot mode.
SlotMethodAlwaysUpdate(mode) == "update_shared"

\* The Slot method the generated slot()/keyed_slot() calls for a slot mode.
SlotMethod(mode) ==
    CASE mode = "new" -> "update_shared"
      [] mode = "value" -> "compare_and_update_cloneable"
      [] mode = "shared" -> "compare_and_update_shared"

\* Whether the Slot method replaces the current value by the new one:
\* always-overwrite, or overwrite-if-unequal.
Replaces(method, current, new) == method = "update_shared" \/ current # new

\* TurboTasks::schedule_notify_tasks(tasks_iter): list.extend(tasks_iter)
RECURSIVE Extended(_, _)
Extended(list, tasks) ==
    IF tasks = {} THEN list
    ELSE LET t == CHOOSE x \in tasks : \A y \in tasks : x <= y
         IN Extended(Append(list, t), tasks \ {t})

\* A slot lookup that ends at the slots of the first task of the table.
match_node_of_first_task(j) == <<1, jobs[j].wrote + 1>>

\* macro_helpers::match_previous_node_by_type: the slot of the current task
\* that is next in call order.
match_previous_node_by_type(j) == <<jobs[j].task, jobs[j].wrote + 1>>

\* XxxVc::slot(content) in the body: the next slot in call order is written.
BodyWrite(j, v) ==
    LET t == match_previous_node_by_type(j)[1]
        i == match_previous_node_by_type(j)[2]
        replaced == Replaces(SlotMethod(SlotMode[i]), slots[t][i], v)
        notified == IF replaced THEN dependents[t][i] ELSE {}
    IN
    /\ jobs[j].pc = "body"
    /\ i \in Slots
    /\ slots' = [slots EXCEPT ![t][i] = IF replaced THEN v ELSE @]
    /\ jobs' = [jobs EXCEPT ![j].wrote = i,
                            ![j].notify = Extended(@, notified),
                            ![j].last = [slot |-> i, equal |-> v = slots[t][i],
                                         replaced |-> replaced, notified |-> notified]]
    /\ UNCHANGED <<cacheVars, counterVars, taskVars, dependents, dependencies, gcVars,
                   calls, budget, hist, listener, pureVars>>

\* vc.get().await in the body: the slot i of task u is read, and the reading
\* task becomes a dependent of it.  A body reads its inputs, in the order of
\* the slots, before it writes its own slots.
BodyRead(j, u, i) ==
    LET t == jobs[j].task IN
    /\ jobs[j].pc = "body"
    /\ jobs[j].wrote = 0
    /\ \A r \in jobs[j].reads : r[1] < u \/ (r[1] = u /\ r[2] < i)
    /\ u < t
    /\ u \in memory_tasks
    /\ slots[u][i] # NoVal
    /\ <<u, i>> \notin jobs[j].reads
    /\ dependents' = [dependents EXCEPT ![u][i] = @ \cup {t}]
    /\ jobs' = [jobs EXCEPT ![j].reads = @ \cup {<<u, i>>}]
    /\ UNCHANGED <<cacheVars, counterVars, taskVars, slots, dependencies, gcVars,
                   calls, budget, hist, listener, pureVars>>

\* A job that hands an error of the body on to its own caller and ends.
return_error(job, ok) ==
    IF ok THEN [job EXCEPT !.pc = "notify", !.ok = ok, !.last = NoWrite] ELSE FreeJob

\* if let Err(err) = &result { println!(..) }; task.execution_result(result):
\* the result, Ok or Err, is stored and the job goes on.
execution_result(job, ok) == [job EXCEPT !.pc = "notify", !.ok = ok, !.last = NoWrite]

\* let result = execution.await; task.execution_result(result)
JobResult(j, ok) ==
    /\ jobs[j].pc = "body"
    /\ ~Blocked(JobThread(j))
    /\ \A c \in Callers : calls[c].pc # "idle" => calls[c].parent # jobs[j].task
    /\ output' = [output EXCEPT ![jobs[j].task] = IF ok THEN "ok" ELSE "err"]
    /\ jobs' = [jobs EXCEPT ![j] = execution_result(@, ok)]
    /\ UNCHANGED <<cacheVars, counterVars, kind, state, dirty, slotVars, gcVars, calls, budget,
                   hist, listener, pureVars>>

\* A walk over the taken queue that is left before its end.
walk_abandoned(job) == TRUE

\* for task in tasks.take().into_iter() { .. }: notify_scheduled_tasks returns
\* when the walk over the taken queue has come to its end.
walk_ended(job) == job.notify = <<>>

\* self.notify_scheduled_tasks(): the queue is taken and walked, with
\* Task::dependent_slot_updated on each entry.  granted records the tasks
\* this job made run again, covered those it left as they were.
JobNotify(j) ==
    LET t == Head(jobs[j].notify)
        rest == [jobs EXCEPT ![j].notify = Tail(@)]
        grant == [rest EXCEPT ![j].granted = Append(@, t)]
        cover == [rest EXCEPT ![j].covered = @ \cup {t}]
    IN
    /\ jobs[j].pc = "notify"
    /\ jobs[j].notify # <<>>
    /\ ~Blocked(JobThread(j))
    /\ t \in memory_tasks
    /\ CASE make_dirty(t) = "schedule" ->
                /\ CanSchedule(t)
                /\ state' = [state EXCEPT ![t] = "Scheduled"]
                /\ jobs' = Scheduled(grant, t, JobThread(j))
                /\ UNCHANGED dirty
         [] make_dirty(t) = "flag" ->
                /\ dirty' = [dirty EXCEPT ![t] = TRUE]
                /\ jobs' = IF dirty[t] THEN cover ELSE grant
                /\ UNCHANGED state
         [] OTHER ->
                /\ jobs' = cover
                /\ UNCHANGED <<state, dirty>>
    /\ hist' = Requested(hist, t)
    /\ UNCHANGED <<cacheVars, counterVars, kind, output, slotVars, gcVars, calls, budget,
                   listener, pureVars>>

\* Edge sets that keep what every execution of the task has read.
MergedEdges(t, reads) == dependents

\* The dependent sets after task t's execution that read the slots in reads:
\* t leaves the slots its earlier execution read and this one did not.
ReplacedEdges(t, reads) ==
    [u \in TaskIds |-> [i \in Slots |->
        IF <<u, i>> \in dependencies[t] \ reads THEN dependents[u][i] \ {t}
        ELSE dependents[u][i]]]

\* task.execution_completed(self.clone())
JobCompleted(j) ==
    LET t == jobs[j].task IN
    /\ jobs[j].pc = "notify"
    /\ walk_ended(jobs[j])
    /\ ~Blocked(JobThread(j))
    /\ dependencies' = [dependencies EXCEPT ![t] = jobs[j].reads]
    /\ dependents' = ReplacedEdges(t, jobs[j].reads)
    /\ UNCHANGED slots
    /\ children' = [children EXCEPT ![t] = jobs[j].called]
    /\ IF children[t] \ jobs[j].called # {}
       THEN /\ CanBackground(background)
            /\ background' = schedule_remove_tasks(background, children[t] \ jobs[j].called)
       ELSE UNCHANGED background
    /\ UNCHANGED active_parents
    /\ IF dirty[t]
       THEN /\ CanSchedule(t)
            /\ state' = [state EXCEPT ![t] = "Scheduled"]
            /\ dirty' = [dirty EXCEPT ![t] = FALSE]
            /\ jobs' = Scheduled([jobs EXCEPT ![j].pc = "dec"], t, JobThread(j))
       ELSE /\ state' = [state EXCEPT ![t] = Finished(jobs[j].ok)]
            /\ jobs' = [jobs EXCEPT ![j].pc = "dec"]
            /\ UNCHANGED dirty
    /\ hist' = [hist EXCEPT !.dropped[t] = (@ \ jobs[j].reads)
                                           \cup (dependencies[t] \ jobs[j].reads)]
    /\ UNCHANGED <<cacheVars, counterVars, kind, output, calls, budget, listener, pureVars>>

\* The wait_done call after last_update has been written: what it will read
\* was recorded after it began to listen.
Recorded(l) == IF l.pc \in {"listening", "woken"} THEN [l EXCEPT !.fresh = TRUE] ELSE l

\* Event::notify(usize::MAX): a listener that waits is woken up.
notify(l) == IF l.pc = "listening" THEN [l EXCEPT !.pc = "woken"] ELSE l

\* currently_scheduled_tasks.fetch_sub(1) == 1
JobDec(j) ==
    /\ jobs[j].pc = "dec"
    /\ ~Blocked(JobThread(j))
    /\ currently_scheduled_tasks' = currently_scheduled_tasks - 1
    /\ jobs' = [jobs EXCEPT ![j] =
                    IF currently_scheduled_tasks = 1 THEN [@ EXCEPT !.pc = "load"] ELSE FreeJob]
    /\ UNCHANGED <<cacheVars, scheduled_tasks, start, last_update, taskVars, slotVars, gcVars,
                   calls, budget, hist, listener, pureVars>>

\* let total = self.scheduled_tasks.load(..)
JobLoad(j) ==
    /\ jobs[j].pc = "load"
    /\ jobs' = [jobs EXCEPT ![j].pc = "store", ![j].total = scheduled_tasks]
    /\ UNCHANGED <<cacheVars, counterVars, taskVars, slotVars, gcVars, calls, budget, hist,
                   listener, pureVars>>

\* self.scheduled_tasks.store(0, ..)
JobStore(j) ==
    /\ jobs[j].pc = "store"
    /\ scheduled_tasks' = 0
    /\ jobs' = [jobs EXCEPT ![j].pc = "update"]
    /\ UNCHANGED <<cacheVars, currently_scheduled_tasks, start, last_update, taskVars,
                   slotVars, gcVars, calls, budget, hist, listener, pureVars>>

\* if let Some(start) = *self.start { *self.last_update = Some((start.elapsed(), total)) }
JobUpdate(j) ==
    /\ jobs[j].pc = "update"
    /\ last_update' = IF start THEN jobs[j].total ELSE last_update
    /\ listener' = IF start THEN Recorded(listener) ELSE listener
    /\ jobs' = [jobs EXCEPT ![j].pc = "event"]
    /\ UNCHANGED <<cacheVars, currently_scheduled_tasks, scheduled_tasks, start, taskVars,
                   slotVars, gcVars, calls, budget, hist, pureVars>>

\* self.event.notify(usize::MAX): every pending wait_done returns last_update.
JobEvent(j) ==
    /\ jobs[j].pc = "event"
    /\ jobs' = [jobs EXCEPT ![j] = FreeJob]
    /\ hist' = [hist EXCEPT !.reported = @ + last_update,
                            !.quiet = @ /\ currently_scheduled_tasks = 0
                                         /\ \A k \in JobIds : ~InFlight(k)]
    /\ background' = Notified(background)
    /\ listener' = notify(listener)
    /\ UNCHANGED <<cacheVars, counterVars, taskVars, slotVars, children, active_parents,
                   calls, budget, pureVars>>

(***************************************************************************)
(* TurboTasks::schedule with its counting taken as one step each: the      *)
(* three statements in the calling thread, and the statements of the job   *)
(* from fetch_sub to event.notify.  Used where the counters are not what   *)
(* is examined.                                                            *)
(***************************************************************************)
ScheduleCalled(j) ==
    /\ jobs[j].pc = "inc"
    /\ currently_scheduled_tasks' = currently_scheduled_tasks + 1
    /\ start' = (start \/ was_zero(currently_scheduled_tasks))
    /\ scheduled_tasks' = scheduled_tasks + 1
    /\ jobs' = [jobs EXCEPT ![j].pc = "spawned"]
    /\ UNCHANGED <<cacheVars, last_update, taskVars, slotVars, gcVars, calls, budget, hist,
                   listener, pureVars>>

JobFinished(j) ==
    LET last == currently_scheduled_tasks = 1 IN
    /\ jobs[j].pc = "dec"
    /\ ~Blocked(JobThread(j))
    /\ currently_scheduled_tasks' = currently_scheduled_tasks - 1
    /\ scheduled_tasks' = IF last THEN 0 ELSE scheduled_tasks
    /\ last_update' = IF last /\ start THEN scheduled_tasks ELSE last_update
    /\ jobs' = [jobs EXCEPT ![j] = FreeJob]
    /\ background' = IF last THEN Notified(background) ELSE background
    /\ listener' = IF last THEN notify(IF start THEN Recorded(listener) ELSE listener)
                   ELSE listener
    /\ UNCHANGED <<cacheVars, start, taskVars, slotVars, children, active_parents, calls,
                   budget, hist, pureVars>>

(***************************************************************************)
(* TurboTasks::wait_done, called by a thread outside the manager.          *)
(***************************************************************************)
\* self.event.listen(): the listener is registered.  busy records whether a
\* schedule job was between its fetch_add and its fetch_sub at that moment.
wait_done_listen ==
    /\ listener.pc = "idle"
    /\ listener' = [pc |-> "listening", busy |-> currently_scheduled_tasks > 0,
                    fresh |-> FALSE, value |-> NoVal]
    /\ UNCHANGED <<cacheVars, counterVars, taskVars, slotVars, gcVars, jobs, calls, budget,
                   hist, pureVars>>

\* .await returns; self.last_update.lock().unwrap().unwrap()
wait_done_return ==
    /\ listener.pc = "woken"
    /\ listener' = [listener EXCEPT !.pc = IF last_update = NoVal THEN "panicked"
                                           ELSE "returned",
                                    !.value = last_update]
    /\ UNCHANGED <<cacheVars, counterVars, taskVars, slotVars, gcVars, jobs, calls, budget,
                   hist, pureVars>>

(***************************************************************************)
(* Requests from outside the manager.                                      *)
(***************************************************************************)
\* Invalidator::invalidate() on the invalidator a task obtained while it ran.
Invalidate(t) ==
    /\ budget.requests > 0
    /\ t \in memory_tasks
    /\ state[t] = "Executing" \/ output[t] # "none"
    /\ hist' = Requested(hist, t)
    /\ budget' = [budget EXCEPT !.requests = @ - 1]
    /\ CASE make_dirty(t) = "schedule" ->
                /\ CanSchedule(t)
                /\ state' = [state EXCEPT ![t] = "Scheduled"]
                /\ jobs' = Scheduled(jobs, t, External)
                /\ UNCHANGED dirty
         [] make_dirty(t) = "flag" ->
                /\ dirty' = [dirty EXCEPT ![t] = TRUE]
                /\ UNCHANGED <<state, jobs>>
         [] OTHER ->
                /\ UNCHANGED <<state, dirty, jobs>>
    /\ UNCHANGED <<cacheVars, counterVars, kind, output, slotVars, gcVars, calls, listener, pureVars>>

\* A further call schedule(task_id) for a task of the table.
ScheduleCall(t) ==
    /\ budget.calls > 0
    /\ t \in memory_tasks
    /\ CanSchedule(t)
    /\ budget' = [budget EXCEPT !.calls = @ - 1]
    /\ jobs' = Scheduled(jobs, t, External)
    /\ UNCHANGED <<cacheVars, counterVars, taskVars, slotVars, gcVars, calls, hist, listener, pureVars>>

(***************************************************************************)
(* TurboTasks::cached_call, called from the body of the executing task     *)
(* parent on the call cache map with key.                                  *)
(***************************************************************************)
\* The Task kind create_new makes for each of the three caches.
KindOf(m) == m

\* A map insert that replaces the entry of a key that is present.
insert_replacing(current, id) == id

\* map.try_insert(key, id): the value the map holds for the key afterwards.
try_insert(current, id) == IF current = NoTask THEN id ELSE current

\* Task::connect_child: the child edge, the active-parent count, and the
\* first scheduling of a task nobody has asked for yet.
ConnectChild(p, t, who, jb) ==
    LET jp == CHOOSE j \in Running(p) : TRUE
        called == [jb EXCEPT ![jp].called = @ \cup {t}]
    IN
    /\ children' = [children EXCEPT ![p] = @ \cup {t}]
    /\ active_parents' = [active_parents EXCEPT ![t] = IF t \in children[p] THEN @ ELSE @ + 1]
    /\ IF state[t] = "Dirty"
       THEN /\ CanSchedule(t)
            /\ state' = [state EXCEPT ![t] = "Scheduled"]
            /\ jobs' = Scheduled(called, t, who)
            /\ hist' = Caused(hist, t)
       ELSE /\ jobs' = called
            /\ UNCHANGED <<state, hist>>

\* A lookup that finds no key.
map_get_nothing(m, k) == NoTask

\* map.get(&key).map(|guard| *guard)
map_get(m, k) == cache[m][k]

\* cached_call(map, key, create_new) called from the body of task p:
\* map.get(&key), and on a miss let id = self.get_free_task_id().  The id is
\* taken in the step of the lookup; the model starts no call it has no id for.
\* present records whether the key was in the map when the call was made,
\* via the function of the manager that made the call.
CallBeginVia(c, p, m, k, via) ==
    LET found == map_get(m, k)
        begun == [FreeCall EXCEPT !.parent = p, !.map = m, !.key = k, !.via = via,
                                  !.present = cache[m][k] # NoTask]
    IN
    /\ calls[c].pc = "idle"
    /\ budget.calls > 0
    /\ Running(p) # {}
    /\ budget' = [budget EXCEPT !.calls = @ - 1]
    /\ IF found # NoTask
       THEN /\ calls' = [calls EXCEPT ![c] = [begun EXCEPT !.pc = "connect", !.result = found]]
            /\ UNCHANGED next_task_id
       ELSE /\ next_task_id <= MaxTasks
            /\ next_task_id' = next_task_id + 1
            /\ calls' = [calls EXCEPT ![c] = [begun EXCEPT !.pc = "insert_task",
                                                            !.id = get_free_task_id]]
    /\ UNCHANGED <<memory_tasks, cache, counterVars, taskVars, slotVars, gcVars, jobs, hist,
                   listener, pureVars>>

CallBegin(c, p, m, k) == CallBeginVia(c, p, m, k, "cached_call")

\* TaskInput::is_resolved, TaskInput::is_nothing
is_resolved(i) == i # "TaskOutput"
is_nothing(i) == i = "Nothing"

\* inputs.iter().all(|i| i.is_resolved() && !i.is_nothing())
all_resolved(inputs) ==
    \A n \in DOMAIN inputs : is_resolved(inputs[n]) /\ ~is_nothing(inputs[n])

\* The closure the function macro generates for NativeFunction::new: it
\* takes one input per parameter, refuses further inputs, and converts each
\* input to the type of its parameter.
bind_fn(inputs) ==
    IF Len(inputs) < Len(Params) THEN "argument missing"
    ELSE IF Len(inputs) > Len(Params) THEN "called with too many arguments"
    ELSE IF \E n \in DOMAIN Params : inputs[n] # Params[n] THEN "try_into failed"
    ELSE "ok"

\* native_call(func, inputs), with its debug_assert on the inputs.
native_call(c, p, inputs) ==
    /\ all_resolved(inputs)
    /\ CallBeginVia(c, p, "native", KeyOf(inputs), "native_call")

\* A dynamic_call that wraps every call in a resolve task.
dynamic_call_wraps(inputs) == "resolve"

\* The call cache dynamic_call turns to for inputs.
dynamic_call_cache(inputs) == IF all_resolved(inputs) THEN "native" ELSE "resolve"

\* dynamic_call(func, inputs)
dynamic_call(c, p, inputs) ==
    CallBeginVia(c, p, dynamic_call_cache(inputs), KeyOf(inputs), "dynamic_call")

\* memory_tasks.insert(id, new_task)
CallInsertTask(c) ==
    /\ calls[c].pc = "insert_task"
    /\ NewTask(calls[c].id, KindOf(calls[c].map), "Dirty")
    /\ calls' = [calls EXCEPT ![c].pc = "try_insert"]
    /\ UNCHANGED <<next_task_id, cache, counterVars, slotVars, gcVars, jobs, budget, hist,
                   listener, pureVars>>

\* match map.try_insert(key, id) { Ok(_) => id, Err(r) => .. *r.current }
CallTryInsert(c) ==
    LET m == calls[c].map
        k == calls[c].key
        now == try_insert(cache[m][k], calls[c].id)
    IN
    /\ calls[c].pc = "try_insert"
    /\ cache' = [cache EXCEPT ![m][k] = now]
    /\ calls' = [calls EXCEPT ![c].pc = IF now = calls[c].id THEN "connect" ELSE "remove",
                              ![c].result = now]
    /\ hist' = [hist EXCEPT !.mapped[m][k] = @ \cup {now}]
    /\ UNCHANGED <<next_task_id, memory_tasks, counterVars, taskVars, slotVars, gcVars, jobs, budget,
                   listener, pureVars>>

\* memory_tasks.remove(&id)
CallRemove(c) ==
    LET id == calls[c].id IN
    /\ calls[c].pc = "remove"
    /\ memory_tasks' = memory_tasks \ {id}
    /\ kind' = [kind EXCEPT ![id] = "none"]
    /\ state' = [state EXCEPT ![id] = "none"]
    /\ calls' = [calls EXCEPT ![c].pc = "connect"]
    /\ UNCHANGED <<next_task_id, cache, counterVars, dirty, output, slotVars, gcVars, jobs, budget, hist,
                   listener, pureVars>>

\* A cached_call that connects the task it created itself whenever it
\* created one.
created_task(c) == IF calls[c].id # NoTask THEN calls[c].id ELSE calls[c].result

\* The task cached_call hands to connect_child: task on the fast path,
\* result_task on the slow path.
result_task(c) == calls[c].result

\* Task::with_current(|parent, _| parent.connect_child(result_task, self))
CallConnect(c) ==
    /\ calls[c].pc = "connect"
    /\ calls[c].result \in memory_tasks
    /\ ConnectChild(calls[c].parent, result_task(c), CallThread(c), jobs)
    /\ calls' = [calls EXCEPT ![c].pc = "return"]
    /\ UNCHANGED <<cacheVars, counterVars, kind, dirty, output, slotVars, background, budget,
                   listener, pureVars>>

\* with_task_and_tt: self.memory_tasks.pin().get(&id).unwrap() panics for a
\* task that has left the table between the lookup and the connect.
CallPanic(c) ==
    /\ calls[c].pc = "connect"
    /\ calls[c].result \notin memory_tasks
    /\ calls' = [calls EXCEPT ![c].pc = "panicked"]
    /\ UNCHANGED <<cacheVars, counterVars, taskVars, slotVars, gcVars, jobs, budget, hist,
                   listener, pureVars>>

\* cached_tasks_iter(guard): the tasks a thread that iterates over the task
\* table finds in it.
cached_tasks_iter == memory_tasks

\* The creator c has lost the race for its key: try_insert has returned the
\* id another creator had stored.
Lost(c) == calls[c].id # NoTask /\ calls[c].result \notin {NoTask, calls[c].id}

\* RawVc::TaskOutput(result_task)
CallReturn(c) ==
    /\ calls[c].pc = "return"
    /\ ~Blocked(CallThread(c))
    /\ calls' = [calls EXCEPT ![c] = FreeCall]
    /\ hist' = [hist EXCEPT !.returned[calls[c].map][calls[c].key] = @ \cup {calls[c].result}]
    /\ UNCHANGED <<cacheVars, counterVars, taskVars, slotVars, gcVars, jobs, budget, listener, pureVars>>

(***************************************************************************)
(* TurboTasks::run_once, called by a thread outside the manager.           *)
(***************************************************************************)
\* A run_once that hands out a value whatever the task's output is.
run_once_unchecked(out) == "ok"

\* What run_once returns for the output of its task: the two `?` return the
\* error of an output that is one, otherwise the value is taken out.
run_once_result(out) == IF out = "err" THEN "err" ELSE "ok"

\* let task_id = self.spawn_once_task(async move { .. })
run_once_spawn(c) ==
    /\ calls[c].pc = "idle"
    /\ CanSpawn
    /\ LET id == get_free_task_id IN
        /\ next_task_id' = next_task_id + 1
        /\ NewTask(id, "once", "Scheduled")
        /\ jobs' = Scheduled(jobs, id, CallThread(c))
        /\ hist' = Caused(hist, id)
        /\ calls' = [calls EXCEPT ![c] = [FreeCall EXCEPT !.pc = "await_output",
                                                           !.result = id]]
    /\ UNCHANGED <<cache, counterVars, slotVars, gcVars, budget, listener, pureVars>>

\* Task::with_done_output(task_id, self, |_, output| output.read(task_id)).await?
\* and the read of the value: the thread goes on when the task is done.
run_once_await(c) ==
    LET t == calls[c].result IN
    /\ calls[c].pc = "await_output"
    /\ ~Blocked(CallThread(c))
    /\ state[t] \in {"Done", "Errored"}
    /\ calls' = [calls EXCEPT ![c].pc = "returned", ![c].value = run_once_result(output[t])]
    /\ UNCHANGED <<cacheVars, counterVars, taskVars, slotVars, gcVars, jobs, budget, hist,
                   listener, pureVars>>

(***************************************************************************)
(* The id counter on its own: threads that take an id and insert a task    *)
(* under it, as spawn_root_task, spawn_once_task and cached_call do, and   *)
(* tasks that leave the table, discarded by cached_call or collected.      *)
(* The counter has IdBits bits, so that its wrap-around is within reach.   *)
(***************************************************************************)
\* AtomicU32::fetch_add(1, ..): the counter after the call; the addition wraps.
fetch_add(v) == (v + 1) % (2 ^ IdBits)

\* let id = self.get_free_task_id()
IdTake(c) ==
    /\ calls[c].pc = "idle"
    /\ next_task_id' = fetch_add(next_task_id)
    /\ calls' = [calls EXCEPT ![c] = [FreeCall EXCEPT !.pc = "id_taken",
                                                       !.id = get_free_task_id]]
    /\ UNCHANGED <<memory_tasks, cache, counterVars, taskVars, slotVars, gcVars, jobs, budget,
                   hist, listener, pureVars>>

\* self.memory_tasks.pin().insert(id, task)
IdInsert(c) ==
    /\ calls[c].pc = "id_taken"
    /\ memory_tasks' = memory_tasks \cup {calls[c].id}
    /\ calls' = [calls EXCEPT ![c] = FreeCall]
    /\ UNCHANGED <<next_task_id, cache, counterVars, taskVars, slotVars, gcVars, jobs, budget,
                   hist, listener, pureVars>>

\* memory_tasks.remove(&id): the task is discarded or collected, its id is
\* retired.
IdRemove(id) ==
    /\ id \in memory_tasks
    /\ memory_tasks' = memory_tasks \ {id}
    /\ hist' = [hist EXCEPT !.evicted = @ \cup {id}]
    /\ UNCHANGED <<next_task_id, cache, counterVars, taskVars, slotVars, gcVars, jobs, calls,
                   budget, listener, pureVars>>

(***************************************************************************)
(* Reference resolution.  The value macro generates resolve() on every     *)
(* reference type; it hands over to the resolve of the reference itself    *)
(* (raw_vc.rs, not among the sources), which follows the specification: a  *)
(* Direct reference is returned as it is, the output of a task is read     *)
(* when the task is done and resolved in turn.                             *)
(***************************************************************************)
\* The chains of Output references: the tasks a chain passes through, each
\* once, and the Direct reference it ends in.
Paths ==
    {path \in UNION {[1..n -> TaskIds] : n \in 0..MaxTasks} :
        \A i, j \in DOMAIN path : i # j => path[i] # path[j]}
Ends == {Direct(t, i) : t \in TaskIds, i \in Slots}

\* The reference a chain starts with.
StartOf(path, end) == IF path = <<>> THEN end ELSE TaskOutput(path[1])

\* The outputs of the tasks, all done, that make up the chain.
ChainOf(path, end) ==
    [t \in TaskIds |->
        IF \E i \in DOMAIN path : path[i] = t
        THEN LET i == CHOOSE x \in DOMAIN path : path[x] = t
             IN IF i < Len(path) THEN TaskOutput(path[i + 1]) ELSE end
        ELSE Direct(t, 1)]

InitResolve ==
    /\ EngineInit
    /\ StatsInit
    /\ node = NoNode
    /\ LibInit
    /\ budget = [calls |-> MaxCalls, requests |-> MaxRequests]
    /\ \E path \in Paths, end \in Ends :
            /\ chain = ChainOf(path, end)
            /\ resolving = [pc |-> "loop", path |-> path, end |-> end,
                            current |-> StartOf(path, end), hops |-> 0]

\* A resolve that follows one output at most.
resolved_after_a_hop(current, hops) == current[1] = "Direct" \/ hops >= 1

\* resolve has reached a reference it returns.
resolved(current, hops) == current[1] = "Direct"

\* The output of the done task a TaskOutput reference names.
read_output(current) == chain[current[2]]

\* One turn of resolve on an Output reference: the output of the task is read.
ResolveHop ==
    /\ resolving.pc = "loop"
    /\ ~resolved(resolving.current, resolving.hops)
    /\ resolving' = [resolving EXCEPT !.current = read_output(@), !.hops = @ + 1]
    /\ UNCHANGED <<cacheVars, counterVars, taskVars, slotVars, gcVars, jobs, calls, budget,
                   hist, chain, listener, statsVars, node, libVars>>

\* Ok(Self { node: self.node.resolve().await? })
ResolveReturn ==
    /\ resolving.pc = "loop"
    /\ resolved(resolving.current, resolving.hops)
    /\ resolving' = [resolving EXCEPT !.pc = "returned"]
    /\ UNCHANGED <<cacheVars, counterVars, taskVars, slotVars, gcVars, jobs, calls, budget,
                   hist, chain, listener, statsVars, node, libVars>>

(***************************************************************************)
(* The constructors the value_impl macro generates for                     *)
(* #[turbo_tasks::constructor(compare_enum: V)], as FileContent::new and   *)
(* FileContent::not_found (turbo-tasks-fs) have them.  An enum value is    *)
(* the tuple of its variant and its payload.  The slot the constructor     *)
(* writes to (slot.rs is not among the sources) follows the predicate form *)
(* of the specification's write.                                           *)
(***************************************************************************)
Buffers == 0..MaxBuffer
Readers == 1..MaxReaders

\* enum FileContent { Content(Vec<u8>), NotFound }
FileContent == {<<"Content", buffer>> : buffer \in Buffers} \cup {<<"NotFound">>}

\* FileContent::new(buffer), FileContent::not_found(): the body of the function.
FileContent_new(buffer) == <<"Content", buffer>>
FileContent_not_found == <<"NotFound">>

\* A functor that compares the variant of the previous value only.
compare_variant_functor(name, inputs, new_content, previous) ==
    IF previous # None /\ Head(previous[2]) = name THEN None ELSE Some(new_content)

\* gen_compare_enum_functor(name), the closure given to conditional_update_shared:
\* without inputs,  if __self == Some(&T::name) { return None };
\* with inputs,     if let Some(&T::name(ref inputs_old)) = __self {
\*                      if true && (input == *input_old).. { return None } };
\* then Some(create_new_content).
gen_compare_enum_functor(name, inputs, new_content, previous) ==
    IF inputs = <<>>
    THEN IF previous = Some(<<name>>) THEN None ELSE Some(new_content)
    ELSE IF /\ previous # None
            /\ Head(previous[2]) = name
            /\ Len(previous[2]) = Len(inputs) + 1
            /\ \A i \in DOMAIN inputs : inputs[i] = previous[2][i + 1]
         THEN None
         ELSE Some(new_content)

\* Slot::conditional_update_shared(ty, functor): the functor is given the
\* previous value of the slot; when it returns Some(content) the slot is
\* replaced and every dependent is scheduled, when it returns None nothing
\* happens.
conditional_update_shared(fn, name, inputs, new_content) ==
    LET result == gen_compare_enum_functor(name, inputs, new_content, node.content)
        replaced == result # None
        notified == IF replaced THEN node.dependents ELSE {}
    IN
    node' = [content |-> IF replaced THEN result ELSE node.content,
             dependents |-> node.dependents,
             scheduled |-> node.scheduled \cup notified,
             write |-> [fn |-> fn, created |-> Some(new_content),
                        previous |-> node.content, dependents |-> node.dependents,
                        replaced |-> replaced, notified |-> notified]]

\* #[turbo_tasks::constructor(compare_enum: Content)] fn new(buffer: Vec<u8>)
constructor_new(buffer) ==
    /\ conditional_update_shared("new", "Content", <<buffer>>, FileContent_new(buffer))
    /\ UNCHANGED <<engineVars, chain, resolving, statsVars, libVars>>

\* #[turbo_tasks::constructor(compare_enum: NotFound)] fn not_found()
constructor_not_found ==
    /\ conditional_update_shared("not_found", "NotFound", <<>>, FileContent_not_found)
    /\ UNCHANGED <<engineVars, chain, resolving, statsVars, libVars>>

\* A task reads the slot (again, when it was scheduled) and is a dependent of it.
node_read(r) ==
    /\ node.content # None
    /\ r \notin node.dependents \/ r \in node.scheduled
    /\ node' = [node EXCEPT !.dependents = @ \cup {r}, !.scheduled = @ \ {r}]
    /\ UNCHANGED <<engineVars, chain, resolving, statsVars, libVars>>

(***************************************************************************)
(* DiskFileSystem (turbo-tasks-fs): read and read_dir register the          *)
(* invalidator of the reading task under the key of the path, and the      *)
(* thread spawned by start_watching collects the events of the watcher in  *)
(* four sets of keys and invokes the invalidators they name.  What an      *)
(* invalidator does to its task is not part of this section.               *)
(***************************************************************************)
\* path.parent(): the parent of the root is the directory the root lies in.
parent(path) == IF path = <<>> THEN Outside ELSE SubSeq(path, 1, Len(path) - 1)

\* key.starts_with(path_key)
starts_with(key, path_key) ==
    /\ Len(path_key) <= Len(key)
    /\ SubSeq(key, 1, Len(path_key)) = path_key

\* notify::DebouncedEvent, as far as the thread looks at it.
DebouncedEvent ==
    {[kind |-> variant, path |-> path, to |-> <<>>] :
        variant \in {"Write", "Create", "Remove", "Chmod", "Error"}, path \in FsPaths}
    \cup {[kind |-> "Rename", path |-> path, to |-> to] : path \in FsPaths, to \in FsPaths}
    \cup {[kind |-> variant, path |-> <<>>, to |-> <<>>] : variant \in {"Rescan", "ErrorNoPath"}}

\* match event { .. }: the sets after the event.  The root of the file system
\* is the path <<>>.
batched(w, event) ==
    LET key == path_to_key(event.path)
        up == path_to_key(parent(event.path))
    IN
    CASE event.kind = "Write" ->
            [w EXCEPT !.batched_invalidate_path = @ \cup {key}]
      [] event.kind \in {"Create", "Remove"} ->
            [w EXCEPT !.batched_invalidate_path_and_children = @ \cup {key},
                      !.batched_invalidate_path_and_children_dir = @ \cup {key},
                      !.batched_invalidate_path_dir = @ \cup {up},
                      !.round.created = @ \cup {key}]
      [] event.kind = "Rename" ->
            [w EXCEPT !.batched_invalidate_path_and_children =
                            @ \cup {key, path_to_key(event.to)},
                      !.batched_invalidate_path_dir =
                            @ \cup {up, path_to_key(parent(event.to))}]
      [] event.kind \in {"Rescan", "ErrorNoPath"} ->
            [w EXCEPT !.batched_invalidate_path_and_children = @ \cup {path_to_key(<<>>)},
                      !.batched_invalidate_path_and_children_dir = @ \cup {path_to_key(<<>>)}]
      [] event.kind = "Error" ->
            [w EXCEPT !.batched_invalidate_path_and_children = @ \cup {key},
                      !.batched_invalidate_path_and_children_dir = @ \cup {key}]
      [] OTHER -> w

\* fn invalidate_path(invalidators, paths): the invalidators removed and invoked.
invalidate_path(invalidators, paths) == invalidators \cap paths

\* fn invalidate_path_and_children_execute(invalidators, paths): the
\* invalidators drained and invoked; paths is cleared by the call.
invalidate_path_and_children_execute(invalidators, paths) ==
    {key \in invalidators : \E path_key \in paths : starts_with(key, path_key)}

\* let mut event = rx.recv(): the first event of a round.
watcher_recv(event) ==
    /\ watch.pc = "recv"
    /\ watch.events < MaxEvents
    /\ watch' = batched([watch EXCEPT !.pc = "try_recv", !.events = @ + 1,
                                      !.round = NoWatch.round], event)
    /\ UNCHANGED <<engineVars, chain, resolving, statsVars, node, magic, retry>>

\* event = rx.try_recv(): a further event of the round.
watcher_try_recv(event) ==
    /\ watch.pc = "try_recv"
    /\ watch.events < MaxEvents
    /\ watch' = batched([watch EXCEPT !.events = @ + 1], event)
    /\ UNCHANGED <<engineVars, chain, resolving, statsVars, node, magic, retry>>

\* Err(TryRecvError::Disconnected) => break 'outer
watcher_disconnected ==
    /\ watch.pc \in {"recv", "try_recv"}
    /\ watch' = [watch EXCEPT !.pc = "exited"]
    /\ UNCHANGED <<engineVars, chain, resolving, statsVars, node, magic, retry>>

\* Err(TryRecvError::Empty) => break, and the block that holds the lock of
\* invalidators.
watcher_invalidators ==
    LET first == invalidate_path(watch.invalidators, watch.batched_invalidate_path)
        left == watch.invalidators \ first
        second == invalidate_path_and_children_execute(
                      left, watch.batched_invalidate_path_and_children)
    IN
    /\ watch.pc = "try_recv"
    /\ watch' = [watch EXCEPT !.pc = "dirs",
                              !.invalidators = left \ second,
                              !.batched_invalidate_path = {},
                              !.batched_invalidate_path_and_children = {}]
    /\ UNCHANGED <<engineVars, chain, resolving, statsVars, node, magic, retry>>

\* The block that holds the lock of dir_invalidators; the second call is
\* given batched_invalidate_path_and_children.
watcher_dir_invalidators ==
    LET first == invalidate_path(watch.dir_invalidators, watch.batched_invalidate_path_dir)
        left == watch.dir_invalidators \ first
        second == invalidate_path_and_children_execute(
                      left, watch.batched_invalidate_path_and_children)
    IN
    /\ watch.pc = "dirs"
    /\ watch' = [watch EXCEPT !.pc = "recv",
                              !.dir_invalidators = left \ second,
                              !.batched_invalidate_path_dir = {},
                              !.batched_invalidate_path_and_children = {},
                              !.round.held = watch.dir_invalidators,
                              !.round.removed = first \cup second,
                              !.round.invoked = [k \in FsKeys |->
                                    (IF k \in first THEN 1 ELSE 0)
                                    + (IF k \in second THEN 1 ELSE 0)],
                              !.round.done = TRUE]
    /\ UNCHANGED <<engineVars, chain, resolving, statsVars, node, magic, retry>>

\* DiskFileSystem::read: self.invalidators.insert(path_to_key(full_path), invalidator)
fs_read(path) ==
    /\ watch.reads < MaxReads
    /\ watch' = [watch EXCEPT !.reads = @ + 1, !.invalidators = @ \cup {path_to_key(path)}]
    /\ UNCHANGED <<engineVars, chain, resolving, statsVars, node, magic, retry>>

\* DiskFileSystem::read_dir: self.dir_invalidators.insert(path_to_key(full_path), invalidator)
fs_read_dir(path) ==
    /\ watch.reads < MaxReads
    /\ watch' = [watch EXCEPT !.reads = @ + 1,
                              !.dir_invalidators = @ \cup {path_to_key(path)}]
    /\ UNCHANGED <<engineVars, chain, resolving, statsVars, node, magic, retry>>

(***************************************************************************)
(* MagicAny (magic_any.rs): a value of any type that is Debug + Eq + Ord +  *)
(* Hash behind &dyn MagicAny.  A boxed value is its concrete type and its  *)
(* payload, a tuple of numbers.  The types are u8, std::cmp::Reverse<u8>   *)
(* and (u8, u8), with the Eq, Ord and Hash that derive gives them.         *)
(***************************************************************************)
MagicTypes == {"u8", "Reverse<u8>", "(u8, u8)"}

Payloads(ty) ==
    IF ty = "(u8, u8)" THEN {<<x, y>> : x \in 0..MaxPayload, y \in 0..MaxPayload}
    ELSE {<<x>> : x \in 0..MaxPayload}

\* The values that can be behind a &dyn MagicAny.
MagicValues == UNION {{[ty |-> ty, value |-> v] : v \in Payloads(ty)} : ty \in MagicTypes}

\* TypeId::of::<T>(): one number for each type, which numbers is decided by
\* the build.
TypeIds == {ids \in [MagicTypes -> 1..Cardinality(MagicTypes)] :
               \A t1, t2 \in MagicTypes : t1 # t2 => ids[t1] # ids[t2]}

\* Ord::cmp of u64 and of u8.
cmp_int(x, y) == IF x < y THEN "Less" ELSE IF x = y THEN "Equal" ELSE "Greater"

\* Ordering::reverse
reverse(ordering) ==
    CASE ordering = "Less" -> "Greater"
      [] ordering = "Greater" -> "Less"
      [] OTHER -> ordering

\* <T as PartialEq>::eq for the payloads of one type.
T_eq(ty, x, y) ==
    IF ty = "(u8, u8)" THEN x[1] = y[1] /\ x[2] = y[2] ELSE x[1] = y[1]

\* <T as Ord>::cmp for the payloads of one type.
T_cmp(ty, x, y) ==
    CASE ty = "u8" -> cmp_int(x[1], y[1])
      [] ty = "Reverse<u8>" -> reverse(cmp_int(x[1], y[1]))
      [] OTHER -> IF x[1] # y[1] THEN cmp_int(x[1], y[1]) ELSE cmp_int(x[2], y[2])

\* <T as Hash>::hash: what the payload writes to the hasher.
T_hash(ty, x) == x

\* other.downcast_ref::<Self>()
downcast_ref(other, Self) == IF other.ty = Self THEN Some(other.value) ELSE None

\* A magic_eq that compares the payloads whatever the type of other is.
magic_eq_any_type(self, other) == T_eq(self.ty, self.value, other.value)

\* fn magic_eq(&self, other: &dyn MagicAny) -> bool
magic_eq(self, other) ==
    LET found == downcast_ref(other, self.ty)
    IN IF found = None THEN FALSE ELSE T_eq(self.ty, self.value, found[2])

\* fn magic_hash(&self, hasher): Hash::hash(&(TypeId::of::<Self>(), self), ..),
\* as what is written to the hasher.
magic_hash(type_id, self) == <<type_id[self.ty]>> \o T_hash(self.ty, self.value)

\* fn magic_cmp(&self, other: &dyn MagicAny) -> Ordering
magic_cmp(type_id, self, other) ==
    LET found == downcast_ref(other, self.ty)
    IN IF found = None THEN cmp_int(type_id[self.ty], type_id[other.ty])
       ELSE T_cmp(self.ty, self.value, found[2])

\* The build gives the types their TypeIds.
magic_build(ids) ==
    /\ magic.pc = "none"
    /\ magic' = [magic EXCEPT !.pc = "built", !.type_id = ids]
    /\ UNCHANGED <<engineVars, chain, resolving, statsVars, node, watch, retry>>

\* Two values are boxed as &dyn MagicAny.
magic_box(a, b) ==
    /\ magic.pc = "built"
    /\ magic' = [magic EXCEPT !.pc = "boxed", !.a = Some(a), !.b = Some(b)]
    /\ UNCHANGED <<engineVars, chain, resolving, statsVars, node, watch, retry>>

\* impl PartialEq for dyn MagicAny: a == b and b == a
dyn_eq ==
    LET a == magic.a[2]
        b == magic.b[2]
    IN
    /\ magic.pc = "boxed"
    /\ magic.eq = None
    /\ magic' = [magic EXCEPT !.eq = Some(<<magic_eq(a, b), magic_eq(b, a)>>)]
    /\ UNCHANGED <<engineVars, chain, resolving, statsVars, node, watch, retry>>

\* impl Ord for dyn MagicAny: a.cmp(b) and b.cmp(a)
dyn_cmp ==
    LET a == magic.a[2]
        b == magic.b[2]
    IN
    /\ magic.pc = "boxed"
    /\ magic.cmp = None
    /\ magic' = [magic EXCEPT !.cmp = Some(<<magic_cmp(magic.type_id, a, b),
                                             magic_cmp(magic.type_id, b, a)>>)]
    /\ UNCHANGED <<engineVars, chain, resolving, statsVars, node, watch, retry>>

\* impl Hash for dyn MagicAny: a.hash(hasher) and b.hash(hasher), each with a
\* hasher of its own.
dyn_hash ==
    LET a == magic.a[2]
        b == magic.b[2]
    IN
    /\ magic.pc = "boxed"
    /\ magic.hash = None
    /\ magic' = [magic EXCEPT !.hash = Some(<<magic_hash(magic.type_id, a),
                                              magic_hash(magic.type_id, b)>>)]
    /\ UNCHANGED <<engineVars, chain, resolving, statsVars, node, watch, retry>>

(***************************************************************************)
(* with_retry (turbo-tasks-fs): the result of a call of func is Ok or the   *)
(* ErrorKind of the std::io::Error.                                        *)
(***************************************************************************)
IoResults == {"Ok", "PermissionDenied", "WouldBlock", "NotFound"}

\* A can_retry that holds for every error.
can_retry_every_error(err) == TRUE

\* fn can_retry(err: &std::io::Error) -> bool
can_retry(err) == err \in {"PermissionDenied", "WouldBlock"}

\* let mut result = func(); if let Err(e) = &result { if can_retry(e) { for i in 0..10
with_retry_first(result) ==
    /\ retry.pc = "none"
    /\ retry' = [retry EXCEPT !.pc = IF result # "Ok" /\ can_retry(result) /\ 0 < Retries
                                     THEN "for" ELSE "result",
                              !.result = Some(result),
                              !.seen = <<result>>]
    /\ UNCHANGED <<engineVars, chain, resolving, statsVars, node, watch, magic>>

\* sleep(..); result = func(); match &result { Ok(_) => break,
\* Err(e) => if !can_retry(e) { break } }, and the next i of the range.
with_retry_again(result) ==
    /\ retry.pc = "for"
    /\ retry' = [retry EXCEPT !.pc = IF result = "Ok" THEN "result"
                                     ELSE IF ~can_retry(result) THEN "result"
                                     ELSE IF retry.i + 1 < Retries THEN "for"
                                     ELSE "result",
                              !.i = @ + 1,
                              !.result = Some(result),
                              !.seen = Append(@, result)]
    /\ UNCHANGED <<engineVars, chain, resolving, statsVars, node, watch, magic>>

\* result
with_retry_return ==
    /\ retry.pc = "result"
    /\ retry' = [retry EXCEPT !.pc = "returned", !.returned = retry.result]
    /\ UNCHANGED <<engineVars, chain, resolving, statsVars, node, watch, magic>>

(***************************************************************************)
(* Stats (turbo-tasks-memory, stats.rs): buckets of tasks by task type,    *)
(* each with the references of its tasks to the types of other tasks.  Of  *)
(* a TaskStats the count and the references are kept; the durations and    *)
(* the other counters are read by nothing but the display.                 *)
(***************************************************************************)
TaskType == 1..MaxTypes
ReferenceType == {"Child", "Dependency", "Input"}
NoType == 0

\* The reference sets task.get_stats_references() can give, each reference
\* taken to the type of the task it names.
RefSets(ref_types, types, n) ==
    {refs \in SUBSET (ref_types \X types) : Cardinality(refs) <= n}

\* map.entry(key).or_default()
or_default(map, key, default) == IF key \in DOMAIN map THEN map[key] ELSE default

\* The number of tasks added so far.
RECURSIVE Added(_)
Added(s) ==
    IF DOMAIN s = {} THEN 0
    ELSE LET ty == CHOOSE x \in DOMAIN s : TRUE
         IN s[ty].count + Added([x \in DOMAIN s \ {ty} |-> s[x]])

\* Stats::add(backend, task) for a task of type ty with the references refs.
add(ty, refs) ==
    LET st == or_default(stats, ty, DefaultTaskStats)
        references == [r \in DOMAIN st.references \cup refs |->
                          or_default(st.references, r, 0) + (IF r \in refs THEN 1 ELSE 0)]
    IN
    /\ Added(stats) < MaxAdds
    /\ stats' = [x \in DOMAIN stats \cup {ty} |->
                     IF x = ty THEN [count |-> st.count + 1, references |-> references]
                     ELSE stats[x]]
    /\ UNCHANGED <<engineVars, chain, resolving, node, libVars, merge_call, tree>>

\* A merge_refs that puts the references of a merged bucket in the place of
\* a Child reference to it as they are.
merge_refs_one_level(refs, merged, depth) ==
    UNION {
        IF r[2] \in DOMAIN merged
        THEN IF r[1] = "Child"
             THEN {<<e[1], e[2], refs[r]>> : e \in DOMAIN merged[r[2]].references}
             ELSE {}
        ELSE {<<r[1], r[2], refs[r]>>} : r \in DOMAIN refs}

\* merge_refs(refs, merged): the entries the flat_map yields, each as
\* <<reference type, task type, count>>.  depth counts the merged buckets
\* the recursion has passed through; past the number of merged buckets it
\* is on a cycle of Child references and does not end.
RECURSIVE merge_refs(_, _, _)
merge_refs(refs, merged, depth) ==
    IF depth > Cardinality(DOMAIN merged) THEN {<<"overflow", NoType, 0>>}
    ELSE UNION {
        IF r[2] \in DOMAIN merged
        THEN IF r[1] = "Child"
             THEN {<<e[1], e[2], refs[r]>> :
                      e \in merge_refs(merged[r[2]].references, merged, depth + 1)}
             ELSE {}
        ELSE {<<r[1], r[2], refs[r]>>} : r \in DOMAIN refs}

\* .collect() into a HashMap: of the entries with the same key the one
\* inserted last stays, and the order is that of the iteration of a HashMap.
collect(entries) ==
    {m \in [{<<e[1], e[2]>> : e \in entries} -> 0..MaxAdds] :
        \A k \in DOMAIN m : <<k[1], k[2], m[k]>> \in entries}

\* Stats::merge(select), with select as the set of the task types it holds
\* for.  It takes &mut self, so no treeify is running; the model calls it
\* before treeify.
merge(select) ==
    LET merged == [ty \in DOMAIN stats \cap select |-> stats[ty]]
        rest == DOMAIN stats \ select
        entries == [ty \in rest |-> merge_refs(stats[ty].references, merged, 0)]
        called == [pc |-> "returned", select |-> select, before |-> stats]
    IN
    /\ merge_call.pc = "idle"
    /\ tree.pc = "idle"
    /\ IF \E ty \in rest : \E e \in entries[ty] : e[1] = "overflow"
       THEN /\ merge_call' = [called EXCEPT !.pc = "stack overflow"]
            /\ stats' = [ty \in rest |-> stats[ty]]
       ELSE /\ merge_call' = called
            /\ \E refs \in [rest -> UNION {collect(entries[ty]) : ty \in rest}] :
                    /\ \A ty \in rest : refs[ty] \in collect(entries[ty])
                    /\ stats' = [ty \in rest |-> [stats[ty] EXCEPT !.references = refs[ty]]]
    /\ UNCHANGED <<engineVars, chain, resolving, node, libVars, tree>>

\* The orders in which the iteration of a HashSet or HashMap can give a set.
Orders(set) ==
    {q \in [1..Cardinality(set) -> set] : \A i, j \in DOMAIN q : i # j => q[i] # q[j]}

\* The buckets no bucket refers to as a Child.
roots(s) ==
    {ty \in DOMAIN s : \A b \in DOMAIN s : <<"Child", ty>> \notin DOMAIN s[b].references}

\* The types a bucket refers to as a Child.
child_types(s, ty) == {c \in TaskType : <<"Child", c>> \in DOMAIN s[ty].references}

\* get_path(ty, task_placement): from the top level down to ty.
RECURSIVE get_path(_, _)
get_path(ty, task_placement) ==
    IF ty = NoType THEN <<>>
    ELSE Append(get_path(task_placement[ty], task_placement), ty)

\* find_common(p1, p2): the entry at the last index at which the paths agree.
find_common(p1, p2) ==
    LET n == IF Len(p1) < Len(p2) THEN Len(p1) ELSE Len(p2)
        same == {i \in 1..n : p1[i] = p2[i]}
    IN IF same = {} THEN NoType
       ELSE p1[CHOOSE i \in same : \A k \in same : k <= i]

\* treeify: let mut roots = ..; let mut queue = roots.into_iter().map(..).collect()
treeify_begin ==
    /\ tree.pc = "idle"
    /\ \E q \in Orders(roots(stats)) :
            tree' = [NoTree EXCEPT !.pc = "loop",
                                   !.queue = [i \in DOMAIN q |-> <<q[i], NoType>>]]
    /\ UNCHANGED <<engineVars, chain, resolving, node, libVars, stats, merge_call>>

\* while let Some((ty, placement)) = queue.pop_front() { match task_placement.entry(ty) .. }
\* self.tasks[ty] panics for a type that is no bucket.
treeify_pop ==
    LET ty == Head(tree.queue)[1]
        placement == Head(tree.queue)[2]
        placed == tree.task_placement
        current_placement == placed[ty]
        new_placement ==
            IF placement # current_placement
            THEN find_common(get_path(placement, placed), get_path(current_placement, placed))
            ELSE current_placement
        inserted == [x \in DOMAIN placed \cup {ty} |-> IF x = ty THEN placement ELSE placed[x]]
    IN
    /\ tree.pc = "loop"
    /\ tree.queue # <<>>
    /\ IF ty \in DOMAIN placed
       THEN tree' = [tree EXCEPT !.queue = Tail(@),
                                 !.task_placement = [placed EXCEPT ![ty] = new_placement]]
       ELSE IF ty \notin DOMAIN stats
       THEN tree' = [tree EXCEPT !.pc = "panicked", !.queue = Tail(@),
                                 !.task_placement = inserted]
       ELSE \E q \in Orders(child_types(stats, ty)) :
                tree' = [tree EXCEPT !.queue = Tail(@) \o [i \in DOMAIN q |-> <<q[i], ty>>],
                                     !.task_placement = inserted]
    /\ UNCHANGED <<engineVars, chain, resolving, node, libVars, stats, merge_call>>

\* for (child, parent) in task_placement { children.entry(parent).or_default().push(child) }
children_of(task_placement) ==
    [p \in {task_placement[ty] : ty \in DOMAIN task_placement} |->
        {ty \in DOMAIN task_placement : task_placement[ty] = p}]

\* into_group(tasks, children, ty): the task types of the GroupTree, the
\* primary first, then the task_types (the leafs), then those of the groups
\* of the children; all_groups takes the inner types that have children one
\* after the other.
RECURSIVE into_group(_, _)
RECURSIVE all_groups(_, _)
into_group(groups, ty) ==
    LET inner == groups[ty]
        inner_with_children == {c \in inner : c \in DOMAIN groups}
        leafs == {c \in inner : c \notin DOMAIN groups}
        task_types == CHOOSE q \in Orders(leafs) : TRUE
    IN (IF ty = NoType THEN <<>> ELSE <<ty>>)
       \o task_types
       \o all_groups(groups, inner_with_children)
all_groups(groups, set) ==
    IF set = {} THEN <<>>
    ELSE LET ty == CHOOSE c \in set : TRUE
         IN into_group(groups, ty) \o all_groups(groups, set \ {ty})

\* The children map and into_group(&self.tasks, &children, None):
\* children[&ty] panics when nothing has been placed at the top level.  The
\* GroupTree returned has each bucket under the bucket task_placement gives.
treeify_group ==
    /\ tree.pc = "loop"
    /\ tree.queue = <<>>
    /\ tree' = IF \E ty \in DOMAIN tree.task_placement : tree.task_placement[ty] = NoType
                THEN [tree EXCEPT !.pc = "done",
                                  !.group = into_group(children_of(tree.task_placement), NoType)]
                ELSE [tree EXCEPT !.pc = "panicked"]
    /\ UNCHANGED <<engineVars, chain, resolving, node, libVars, stats, merge_call>>

(***************************************************************************)
(* Specifications.                                                         *)
(***************************************************************************)
ScheduleStep ==
    \E j \in JobIds :
        \/ ScheduleInc(j)
        \/ ScheduleSetStart(j)
        \/ ScheduleCount(j)

JobStep(results) ==
    \E j \in JobIds :
        \/ JobStart(j)
        \/ \E ok \in results : JobResult(j, ok)
        \/ JobCompleted(j)

CountingStep ==
    \E j \in JobIds :
        \/ ScheduleCalled(j)
        \/ JobFinished(j)

\* No thread is at the counting statements of schedule.  They touch the
\* counters only, so where the counters are not examined a thread that has
\* reached them runs them before any other thread moves.
Counted == \A j \in JobIds : jobs[j].pc \notin {"inc", "dec"}

CompletionStep ==
    \E j \in JobIds :
        \/ JobDec(j)
        \/ JobLoad(j)
        \/ JobStore(j)
        \/ JobUpdate(j)
        \/ JobEvent(j)

\* The steps of a thread inside cached_call.
CallProgress(callers) ==
    \E c \in callers :
        \/ CallInsertTask(c)
        \/ CallTryInsert(c)
        \/ CallRemove(c)
        \/ CallConnect(c)
        \/ CallReturn(c)

\* Calls of cached_call on the caches maps by the threads callers.
CallStep(callers, maps) ==
    \/ \E c \in callers, p \in TaskIds, m \in maps, k \in Keys : CallBegin(c, p, m, k)
    \/ CallProgress(callers)

BgStep ==
    \E b \in BgIds :
        \/ BgCheck(b)
        \/ BgListen(b)
        \/ BgRecheck(b)
        \/ BgAwait(b)
        \/ BgRemove(b)
        \/ BgDeactivate(b)

\* K independent root tasks: no dependencies, no invalidations.
NextRoots == spawn_root_task \/ ScheduleStep \/ JobStep({TRUE}) \/ CompletionStep
SpecRoots == Init /\ [][NextRoots]_vars

\* spawn_root_task and spawn_once_task as the first call made to the manager.
spawn_single_root_task == memory_tasks = {} /\ spawn_root_task
spawn_single_once_task == memory_tasks = {} /\ spawn_once_task

\* A root task and further schedule calls for it, which find the task
\* Scheduled, Executing or Done; schedule runs statement by statement.
NextCount ==
    \/ spawn_single_root_task
    \/ \E t \in TaskIds : ScheduleCall(t)
    \/ ScheduleStep
    \/ JobStep({TRUE})
    \/ CompletionStep
SpecCount == Init /\ [][NextCount]_vars

\* One task, Root or Once, with invalidations and further schedule calls;
\* without slots and calls the tasks of the table do not act on each other.
NextSched ==
    \/ CountingStep
    \/ Counted /\ spawn_single_root_task
    \/ Counted /\ spawn_single_once_task
    \/ Counted /\ \E t \in TaskIds : Invalidate(t)
    \/ Counted /\ \E t \in TaskIds : ScheduleCall(t)
    \/ Counted /\ JobStep(BOOLEAN)
SpecSched == Init /\ [][NextSched]_vars

BodyStep ==
    \E j \in JobIds :
        \/ \E v \in Vals : BodyWrite(j, v)
        \/ \E u \in TaskIds, i \in Slots : BodyRead(j, u, i)
        \/ JobNotify(j)

\* Root and Once tasks that write and read slots, and invalidations.
NextSlots ==
    \/ CountingStep
    \/ Counted /\ spawn_root_task
    \/ Counted /\ spawn_once_task
    \/ Counted /\ \E t \in TaskIds : Invalidate(t)
    \/ Counted /\ BodyStep
    \/ Counted /\ JobStep({TRUE})
SpecSlots == Init /\ [][NextSlots]_vars

\* Calls through the three call caches from the body of one root task and
\* from the bodies of the tasks it calls.
NextCache ==
    \/ CountingStep
    \/ Counted /\ spawn_single_root_task
    \/ Counted /\ CallStep(Callers, CacheNames)
    \/ Counted /\ JobStep({TRUE})
SpecCache == Init /\ [][NextCache]_vars

\* One root after another calls through the native call cache, is
\* invalidated and runs again; background jobs collect the tasks dropped.
GCProgress ==
    \/ CountingStep
    \/ Counted /\ CallProgress({1})
    \/ Counted /\ JobStep({TRUE})
    \/ Counted /\ BgStep

NextGC ==
    \/ GCProgress
    \/ Counted /\ spawn_root_task
    \/ Counted /\ \E t \in TaskIds : kind[t] = "root" /\ Invalidate(t)
    \/ Counted /\ \E p \in TaskIds, k \in Keys : CallBegin(1, p, "native", k)
    \/ Counted /\ CallPanic(1)
SpecGC == Init /\ [][NextGC]_vars

\* The runtime runs every spawned job and every thread that can take a step.
SpecGCFair == SpecGC /\ WF_vars(GCProgress)

\* One task, Root or Once, and the invalidators it handed out: several calls
\* of invalidate(), at any time after the task has begun to run.
InitInval ==
    /\ EngineInit
    /\ StatsInit
    /\ node = NoNode
    /\ LibInit
    /\ budget = [calls |-> MaxCalls, requests |-> MaxInvalidates]
    /\ chain = [t \in TaskIds |-> Direct(t, 1)]
    /\ resolving = NotResolving

InvalProgress ==
    \/ CountingStep
    \/ Counted /\ JobStep(BOOLEAN)

NextInval ==
    \/ InvalProgress
    \/ Counted /\ spawn_single_root_task
    \/ Counted /\ spawn_single_once_task
    \/ Counted /\ \E t \in TaskIds : Invalidate(t)
SpecInval == InitInval /\ [][NextInval]_vars

\* The runtime runs every spawned job, and every body returns.
SpecInvalFair == SpecInval /\ WF_vars(InvalProgress)

\* Threads that call run_once, each with a body that returns a value or an
\* error.
NextOnce ==
    \/ CountingStep
    \/ Counted /\ \E c \in Callers : run_once_spawn(c)
    \/ Counted /\ \E c \in Callers : run_once_await(c)
    \/ Counted /\ JobStep(BOOLEAN)
SpecOnce == Init /\ [][NextOnce]_vars

\* Calls of native_call and dynamic_call with every argument list, from the
\* body of one root task and from the bodies of the tasks it calls.
NextCalls ==
    \/ CountingStep
    \/ Counted /\ spawn_single_root_task
    \/ Counted /\ \E c \in Callers, p \in TaskIds, inputs \in ArgLists :
                      native_call(c, p, inputs)
    \/ Counted /\ \E c \in Callers, p \in TaskIds, inputs \in ArgLists :
                      dynamic_call(c, p, inputs)
    \/ Counted /\ CallProgress(Callers)
    \/ Counted /\ JobStep({TRUE})
SpecCalls == Init /\ [][NextCalls]_vars

\* Concurrent allocators, and tasks that leave the table.
NextIds ==
    \/ \E c \in Callers : IdTake(c)
    \/ \E c \in Callers : IdInsert(c)
    \/ \E id \in 0..(2 ^ IdBits - 1) : IdRemove(id)
SpecIds == Init /\ [][NextIds]_vars

\* Root tasks whose bodies read slots and write one slot, with several
\* invalidations: a task runs again and reads other slots than before.
NextEdges ==
    \/ CountingStep
    \/ Counted /\ spawn_root_task
    \/ Counted /\ \E t \in TaskIds : Invalidate(t)
    \/ Counted /\ \E j \in JobIds, v \in Vals : jobs[j].wrote = 0 /\ BodyWrite(j, v)
    \/ Counted /\ \E j \in JobIds, u \in TaskIds : BodyRead(j, u, 1)
    \/ Counted /\ \E j \in JobIds : JobNotify(j)
    \/ Counted /\ JobStep({TRUE})
SpecEdges == InitInval /\ [][NextEdges]_vars

\* Root tasks spawned by threads outside the manager, and a thread that
\* calls wait_done; the runtime runs every spawned job, every body returns
\* and the thread that waits runs when it is woken up.
WaitProgress == ScheduleStep \/ JobStep({TRUE}) \/ CompletionStep \/ wait_done_return
NextWait == WaitProgress \/ spawn_root_task \/ wait_done_listen
SpecWait == Init /\ [][NextWait]_vars
SpecWaitFair == SpecWait /\ WF_vars(WaitProgress)

\* Root tasks that read and write slots and whose bodies return Ok or Err,
\* invalidations, and a thread that calls wait_done; the runtime runs every
\* spawned job, every body returns and the thread that waits runs when it is
\* woken up.
ErrProgress ==
    \/ CountingStep
    \/ Counted /\ \E j \in JobIds : JobNotify(j)
    \/ Counted /\ JobStep(BOOLEAN)
    \/ wait_done_return

NextErr ==
    \/ ErrProgress
    \/ Counted /\ spawn_root_task
    \/ Counted /\ \E t \in TaskIds : Invalidate(t)
    \/ Counted /\ \E j \in JobIds, v \in Vals : jobs[j].wrote = 0 /\ BodyWrite(j, v)
    \/ Counted /\ \E j \in JobIds, u \in TaskIds : BodyRead(j, u, 1)
    \/ wait_done_listen
SpecErr == Init /\ [][NextErr]_vars
SpecErrFair == SpecErr /\ WF_vars(ErrProgress)

\* Root tasks and background jobs scheduled at any moment; schedule and
\* schedule_background_job run statement by statement.  The runtime runs
\* every spawned job, and every body returns.
BgProgress ==
    \/ ScheduleStep
    \/ JobStep({TRUE})
    \/ CompletionStep
    \/ \E b \in BgIds : BgCheck(b) \/ BgListen(b) \/ BgRecheck(b) \/ BgAwait(b) \/ BgRemove(b)

NextBg == BgProgress \/ spawn_root_task \/ BackgroundCall
SpecBg == Init /\ [][NextBg]_vars
SpecBgFair == SpecBg /\ WF_vars(BgProgress)

\* Tasks that read files and directories, and the watcher thread.
NextWatch ==
    \/ \E event \in DebouncedEvent : watcher_recv(event)
    \/ \E event \in DebouncedEvent : watcher_try_recv(event)
    \/ watcher_disconnected
    \/ watcher_invalidators
    \/ watcher_dir_invalidators
    \/ \E path \in FsPaths : fs_read(path)
    \/ \E path \in FsPaths : fs_read_dir(path)
SpecWatch == Init /\ [][NextWatch]_vars

\* Two values behind &dyn MagicAny are compared and hashed.
NextMagic ==
    \/ \E ids \in TypeIds : magic_build(ids)
    \/ \E a \in MagicValues, b \in MagicValues : magic_box(a, b)
    \/ dyn_eq
    \/ dyn_cmp
    \/ dyn_hash
SpecMagic == Init /\ [][NextMagic]_vars

\* One call of with_retry.
NextRetry ==
    \/ \E result \in IoResults : with_retry_first(result)
    \/ \E result \in IoResults : with_retry_again(result)
    \/ with_retry_return
SpecRetry == Init /\ [][NextRetry]_vars

\* No merge and no treeify has been called on the Stats yet.
StatsBuilt == merge_call.pc = "idle" /\ tree.pc = "idle"

\* Stats built from tasks and their child references, then treeify.
NextTreeify ==
    \/ StatsBuilt /\ \E ty \in TaskType, refs \in RefSets({"Child"}, TaskType, MaxRefs) :
                         add(ty, refs)
    \/ treeify_begin
    \/ treeify_pop
    \/ treeify_group
SpecTreeify == Init /\ [][NextTreeify]_vars

\* Stats built from tasks of MergeTypes types with one reference at most, a
\* child or a dependency, then merge with any selection of task types.
NextMerge ==
    \/ StatsBuilt /\ \E ty \in 1..MergeTypes,
                         refs \in RefSets({"Child", "Dependency"}, 1..MergeTypes, 1) :
                         add(ty, refs)
    \/ \E select \in SUBSET (1..MergeTypes) : merge(select)
SpecMerge == Init /\ [][NextMerge]_vars

\* The same Stats with merge, treeify, or merge and then treeify.
NextStats == NextMerge \/ treeify_begin \/ treeify_pop \/ treeify_group
SpecStats == Init /\ [][NextStats]_vars

\* The constructors of FileContent on one slot, and the tasks that read it.
NextEnum ==
    \/ \E buffer \in Buffers : constructor_new(buffer)
    \/ constructor_not_found
    \/ \E r \in Readers : node_read(r)

SpecEnum == Init /\ [][NextEnum]_vars

\* resolve on every chain of outputs; the call is run until it returns.
NextResolve == ResolveHop \/ ResolveReturn
SpecResolve == InitResolve /\ [][NextResolve]_vars /\ WF_vars(NextResolve)

(***************************************************************************)
(* Properties.                                                             *)
(***************************************************************************)
\* No schedule job exists: every spawned job has run to its end.
NoJob == \A j \in JobIds : jobs[j].pc = "free"

\* C4: once the K spawned root tasks have all run, the counts reported with
\* the completion events add up to K.
C4_ReportedCountIsK == NoJob => hist.reported = next_task_id - 1

\* C5: every completion event was notified in a quiescent state.
C5_NotifiedOnlyWhenQuiescent == hist.quiet

\* C1: in each call cache every key has mapped to at most one TaskId, and
\* every call with that key has returned that TaskId.
C1_OneTaskPerKey ==
    \A m \in CacheNames, k \in Keys :
        Cardinality(hist.returned[m][k] \cup hist.mapped[m][k]) <= 1

\* A call that lost the creation race returns the id the winner has returned.
C1_LostRaceReturnsWinner ==
    \E c \in Callers :
        /\ calls[c].pc = "return"
        /\ calls[c].id \notin {NoTask, calls[c].result}
        /\ hist.returned[calls[c].map][calls[c].key] = {calls[c].result}

\* C2: a write to a slot of an overwrite-if-unequal mode with a value equal
\* to the stored one leaves the slot as it is and enqueues no dependent for
\* notification, so nothing is scheduled.
C2_EqualWriteSchedulesNothing ==
    \A j \in JobIds :
        LET w == jobs[j].last IN
        (w.slot # 0 /\ SlotMode[w.slot] \in {"shared", "value"} /\ w.equal)
            => (~w.replaced /\ w.notified = {})

\* A task executing again has just written the value its compare-on-write
\* slot already held, and the slot has a dependent.
C2_EqualWriteWithDependent ==
    \E j \in JobIds :
        LET w == jobs[j].last IN
        /\ jobs[j].pc = "body"
        /\ w.slot # 0
        /\ SlotMode[w.slot] = "shared"
        /\ w.equal
        /\ dependents[jobs[j].task][w.slot] # {}

\* C3: the notifications of one execution make each dependent run again at
\* most once.
C3_DependentScheduledOnce ==
    \A j \in JobIds :
        \A a, b \in DOMAIN jobs[j].granted :
            a # b => jobs[j].granted[a] # jobs[j].granted[b]

\* C6: no task has two executions of its body in progress.
C6_OneBodyPerTask == \A t \in TaskIds : Cardinality(Running(t)) <= 1

\* After a further schedule call, a job of a task has found the task
\* executing in another job and has not run the body.
C6_SecondJobSkippedBody ==
    \E t \in TaskIds, j \in JobIds :
        /\ Running(t) # {}
        /\ jobs[j].task = t
        /\ jobs[j].pc = "dec"
        /\ jobs[j].caller = External
        /\ hist.execs[t] = 1

C8_OnceExecutedOnce ==
    /\ [](\A t \in TaskIds : kind[t] = "once" =>
            /\ hist.execs[t] <= 1
            /\ (\A j \in JobIds : jobs[j].task # t) => hist.execs[t] = 1)
    /\ [][\A t \in TaskIds : (kind[t] = "once" /\ output[t] # "none") =>
                                  output'[t] = output[t]]_vars

\* A Once task that has run once is at rest, and a job of a task whose slot
\* it read has notified it of a change of that slot.
C8_OnceNotifiedOfChange ==
    \E t \in TaskIds, j \in JobIds :
        /\ kind[t] = "once"
        /\ state[t] \in {"Done", "Errored"}
        /\ hist.execs[t] = 1
        /\ t \in jobs[j].covered
        /\ output[t] # "none"

\* A task is reachable from a live root: it has an active parent or is an
\* external GC root itself.
Reachable(t) == active_parents[t] > 0 \/ ExternalRoot(t)

\* C9: no step removes a reachable task from the task table.
C9_ReachableNeverRemoved ==
    [][\A t \in memory_tasks : Reachable(t) => t \in memory_tasks']_vars

\* A deactivate job has run over a task that had regained a parent after the
\* job was scheduled, and has left it in the table.
C9_RegainedParentSpared ==
    \E t \in hist.spared : t \in memory_tasks /\ active_parents[t] > 0

\* The active-parent count of task t has dropped to zero and t is no
\* external GC root.
Unreachable(t) ==
    /\ t \in memory_tasks
    /\ active_parents[t] = 0
    /\ ~ExternalRoot(t)
    /\ state[t] # "Dirty"

\* A thread has panicked, so the task it ran in stays in flight for ever.
Panicked == \E c \in Callers : calls[c].pc = "panicked"

C11_HitChangesNothing ==
    [][\A c \in Callers :
          LET call == IF calls[c].pc = "idle" THEN calls'[c] ELSE calls[c]
              t == call.result
          IN (calls'[c] # calls[c] /\ call.present) =>
                /\ UNCHANGED cacheVars
                /\ call.id = NoTask
                /\ (t \in TaskIds /\ state[t] \in {"Done", "Errored"}) =>
                        /\ state'[t] = state[t]
                        /\ hist'.due[t] = hist.due[t]
                        /\ \A n \in 1..MaxJobs : jobs'[<<t, n>>] = jobs[<<t, n>>]]_vars

\* A call that found its key present has connected a task that had completed
\* its one execution, and is about to return it.
C11_HitOnCompletedTask ==
    \E c \in Callers :
        /\ calls[c].pc = "return"
        /\ calls[c].present
        /\ state[calls[c].result] = "Done"
        /\ hist.execs[calls[c].result] = 1
        /\ \A n \in 1..MaxJobs : jobs[<<calls[c].result, n>>].pc = "free"

\* C12: the TaskId a losing creator allocated is never observable outside its
\* call: it is never returned, never stored in a call cache and never found
\* in the task table by a thread that reads the table while the call runs.
C12_LoserNeverObserved ==
    \A c \in Callers :
        Lost(c) =>
            /\ \A m \in CacheNames, k \in Keys :
                    /\ cache[m][k] # calls[c].id
                    /\ calls[c].id \notin hist.returned[m][k]
            /\ calls[c].id \notin cached_tasks_iter

\* C13: a body that returns an error does not stop its schedule job: the job
\* stores the result as the output of the task and goes on to the
\* notifications; a task that ends Errored holds the error as its output, and
\* a run_once that has returned has returned the error exactly when the
\* output of its task is the error.
C13_ErrorStoredAndReturned ==
    /\ [](\A t \in memory_tasks : state[t] = "Errored" => output[t] = "err")
    /\ [](\A c \in Callers :
            calls[c].pc = "returned" =>
                (calls[c].value = "err" <=> output[calls[c].result] = "err"))
    /\ [][\A j \in JobIds :
            (jobs[j].pc = "body" /\ jobs'[j].pc # "body") =>
                /\ jobs'[j].pc = "notify"
                /\ output'[jobs[j].task] = IF jobs'[j].ok THEN "ok" ELSE "err"]_vars

\* A run_once whose body failed has returned the error, and every schedule
\* job has run to its end.
C13_RunOnceReturnedError ==
    /\ NoJob
    /\ \E c \in Callers :
            /\ calls[c].pc = "returned"
            /\ calls[c].value = "err"
            /\ state[calls[c].result] = "Errored"

\* C14: a call of native_call or dynamic_call with arguments the function
\* does not accept, by their number or their type, allocates no TaskId and
\* inserts no task into the task table or a call cache.
C14_MisuseCreatesNoTask ==
    /\ \A c \in Callers :
            (/\ calls[c].via \in {"native_call", "dynamic_call"}
             /\ calls[c].map = "native"
             /\ bind_fn(InputsOf(calls[c].key)) # "ok") => calls[c].id = NoTask
    /\ \A inputs \in ArgLists :
            (all_resolved(inputs) /\ bind_fn(inputs) # "ok") =>
                cache["native"][KeyOf(inputs)] = NoTask

\* C16: a dynamic_call turns to the direct-call cache when all its inputs are
\* resolved and to the resolve-wrapper cache, under the inputs as given,
\* otherwise; it returns the task that cache holds for the key, which is the
\* task native_call returns for it, and no step of it changes another cache.
C16_DynamicCallCache ==
    /\ [](\A c \in Callers :
            calls[c].via = "dynamic_call" =>
                /\ calls[c].map =
                       IF \A n \in DOMAIN InputsOf(calls[c].key) :
                              InputsOf(calls[c].key)[n] \notin {"TaskOutput", "Nothing"}
                       THEN "native" ELSE "resolve"
                /\ calls[c].pc = "return" =>
                       calls[c].result = cache[calls[c].map][calls[c].key])
    /\ [][\A c \in Callers :
            LET call == IF calls[c].pc = "idle" THEN calls'[c] ELSE calls[c] IN
            (calls'[c] # calls[c] /\ call.via = "dynamic_call") =>
                \A m \in CacheNames \ {call.map} : cache'[m] = cache[m]]_vars

\* A dynamic_call with an unresolved input has made a wrapper task and left
\* the direct-call cache without an entry for its inputs; a dynamic_call
\* with resolved inputs and a native_call with the same inputs are about to
\* return the same task.
C16_BothCachesUsed ==
    /\ \E inputs \in ArgLists :
            /\ ~all_resolved(inputs)
            /\ cache["resolve"][KeyOf(inputs)] # NoTask
            /\ kind[cache["resolve"][KeyOf(inputs)]] = "resolve"
            /\ cache["native"][KeyOf(inputs)] = NoTask
    /\ \E c, d \in Callers :
            /\ calls[c].via = "dynamic_call" /\ calls[d].via = "native_call"
            /\ calls[c].pc = "return" /\ calls[d].pc = "return"
            /\ calls[c].key = calls[d].key
            /\ calls[c].result = calls[d].result

\* C15: resolve on a chain of N Output references that ends in a Direct
\* reference returns, and when it has returned it has read N outputs and
\* holds that Direct reference; for N = 0 it holds the reference it was given.
C15_ResolveFollowsChain ==
    /\ [](resolving.pc = "returned" =>
            /\ resolving.hops = Len(resolving.path)
            /\ resolving.current = resolving.end
            /\ resolving.current[1] = "Direct")
    /\ [](resolving.hops <= Len(resolving.path))
    /\ <>(resolving.pc = "returned")

\* resolve has returned from a chain of more than one Output reference.
C15_ResolvedLongChain ==
    /\ resolving.pc = "returned"
    /\ Len(resolving.path) >= 2
    /\ resolving.hops = Len(resolving.path)

\* A further execution of task t is pending: it is scheduled, or it executes
\* with its re-run flag set.
Pending(t) == state[t] = "Scheduled" \/ (state[t] = "Executing" /\ dirty[t])

\* C17: once invalidate() has been called on a task, the task is eventually
\* executed again, and an invalidate() that finds the further execution
\* pending adds none.
C17_InvalidateReschedules ==
    /\ \A t \in TaskIds :
            (t \in memory_tasks /\ budget.requests < MaxInvalidates) ~> (hist.execs[t] >= 2)
    /\ [][\A t \in memory_tasks :
            (budget'.requests < budget.requests /\ Pending(t)) =>
                UNCHANGED <<jobs, state, dirty>>]_vars

\* C17 for the tasks that can be invalidated: once invalidate() has been
\* called on a task that is not a Once task, a further execution is pending
\* right away and the task is eventually executed again; an invalidate()
\* that finds the further execution pending adds none, so the task has
\* started at most one execution more than invalidate() calls that found
\* none pending.
C17_InvalidateReschedulesUnlessOnce ==
    /\ \A t \in TaskIds :
            (t \in memory_tasks /\ kind[t] # "once" /\ budget.requests < MaxInvalidates)
                ~> (hist.execs[t] >= 2)
    /\ [][\A t \in memory_tasks :
            /\ (budget'.requests < budget.requests /\ kind[t] # "once") => Pending(t)'
            /\ (budget'.requests < budget.requests /\ Pending(t)) =>
                    UNCHANGED <<jobs, state, dirty>>]_vars

\* Every invalidate() has been called on a Root task, the jobs have run to
\* their end, and the task has been executed twice: the calls of
\* invalidate() have caused one further execution between them.
C17_TwoCallsOneExecution ==
    /\ NoJob
    /\ budget.requests = 0
    /\ \E t \in memory_tasks :
            /\ kind[t] = "root"
            /\ state[t] \in {"Done", "Errored"}
            /\ hist.execs[t] = 2

C19_BackgroundRunsWhenIdle ==
    [][\A b \in BgIds :
          (background[b].pc = "run" /\ background'[b] # background[b]) =>
              /\ currently_scheduled_tasks = 0
              /\ \A j \in JobIds : ~InFlight(j)]_vars

\* C20: the id get_free_task_id returns is the id of no task in the task
\* table, is held by no other thread that took it and has yet to insert its
\* task, and is no id of a task that was discarded or collected.
C20_FreshTaskId ==
    [][\A c \in Callers :
          (calls[c].pc = "idle" /\ calls'[c].pc = "id_taken") =>
              /\ calls'[c].id \notin memory_tasks
              /\ calls'[c].id \notin hist.evicted
              /\ \A d \in Callers \ {c} :
                      ~(calls[d].pc = "id_taken" /\ calls[d].id = calls'[c].id)]_vars

\* C21: a step that replaces the value of a slot is a step of a job that runs
\* the body of the task that owns the slot, taken while that task is
\* Executing; the value is replaced in one step, so every read finds an old
\* or a new value.
C21_OnlyOwnerReplaces ==
    [][\A t \in TaskIds, i \in Slots :
          slots'[t][i] # slots[t][i] =>
              /\ state[t] = "Executing"
              /\ slots'[t][i] \in Vals
              /\ \E j \in JobIds :
                      /\ jobs[j].task = t
                      /\ jobs[j].pc = "body"
                      /\ jobs'[j].wrote = i]_vars

\* C21 happens: an executing task has replaced the value of a slot that a
\* task which is not executing has read.
C21_ReplacedUnderReader ==
    \E j \in JobIds :
        /\ jobs[j].pc = "body"
        /\ jobs[j].last.replaced
        /\ ~jobs[j].last.equal
        /\ \E r \in jobs[j].last.notified : state[r] = "Done"

\* C22: when an execution of a task completes, the task's dependencies are
\* the slots that execution read, and the task is a dependent of exactly
\* those slots; a write that replaces a slot's value hands a task at rest to
\* the notifications only if the task's last execution read the slot.
C22_EdgesReplaced ==
    [][/\ \A j \in JobIds :
              (jobs[j].pc = "notify" /\ jobs'[j].pc = "dec") =>
                  /\ dependencies'[jobs[j].task] = jobs[j].reads
                  /\ \A u \in TaskIds, i \in Slots :
                          (jobs[j].task \in dependents'[u][i]) = (<<u, i>> \in jobs[j].reads)
       /\ \A j \in JobIds :
              (jobs[j].pc = "body" /\ jobs'[j].wrote # jobs[j].wrote) =>
                  \A r \in jobs'[j].last.notified :
                      state[r] \in {"Done", "Errored"} =>
                          <<jobs[j].task, jobs'[j].wrote>> \in dependencies[r]]_vars

\* C22 happens: a slot that an earlier execution of a task read and its
\* latest execution did not has got a new value, and the task, at rest, was
\* not handed to the notifications.
C22_FormerDependencyChanged ==
    \E j \in JobIds, r \in TaskIds :
        /\ jobs[j].pc = "body"
        /\ jobs[j].last.replaced
        /\ ~jobs[j].last.equal
        /\ <<jobs[j].task, jobs[j].last.slot>> \in hist.dropped[r]
        /\ state[r] = "Done"
        /\ r \notin jobs[j].last.notified

\* C23: a wait_done call that began to listen while a schedule job was in
\* flight returns, and what it returns was written to last_update after it
\* began to listen.
C23_WaitDoneReturnsNewBatch ==
    /\ (listener.pc = "listening" /\ listener.busy) ~> (listener.pc = "returned")
    /\ []((listener.pc = "returned" /\ listener.busy) => listener.fresh)

\* C24: the connect_child of a cached_call adds the task the call returns,
\* and nothing else, to the children of the calling task; when the call
\* returns that task is a child of the calling task, and a task the call
\* created and discarded is a child of no task and has no active parent.
C24_ParentOfReturnedTask ==
    [][\A c \in Callers :
          /\ (calls[c].pc = "connect" /\ calls'[c].pc = "return") =>
                 children' = [children EXCEPT ![calls[c].parent] = @ \cup {calls[c].result}]
          /\ (calls[c].pc = "return" /\ calls'[c].pc = "idle") =>
                 /\ calls[c].result \in children[calls[c].parent]
                 /\ active_parents[calls[c].result] >= 1
                 /\ Lost(c) =>
                        /\ active_parents[calls[c].id] = 0
                        /\ \A p \in TaskIds : calls[c].id \notin children[p]]_vars

\* C24 happens: a call that created a task and lost the race for its key is
\* about to return the winner's task: the task it created has left the
\* table, and the winner's task is a child of the calling task.
C24_LostRaceConnectsWinner ==
    \E c \in Callers :
        /\ calls[c].pc = "return"
        /\ Lost(c)
        /\ calls[c].id \notin memory_tasks
        /\ calls[c].result \in children[calls[c].parent]
        /\ active_parents[calls[c].result] >= 1

\* The buckets of s from which Child references lead to one of the buckets
\* in set, in n steps at most, and the buckets in set.
RECURSIVE Above(_, _, _)
Above(s, set, n) ==
    IF n = 0 THEN set
    ELSE Above(s, set \cup {b \in DOMAIN s :
                                \E c \in set : <<"Child", c>> \in DOMAIN s[b].references},
               n - 1)

\* The ancestors of a bucket over Child references, the bucket among them.
Ancestors(s, ty) == Above(s, {ty}, MaxTypes)

\* The buckets that refer to ty as a Child.
Referencers(s, ty) == {b \in DOMAIN s : <<"Child", ty>> \in DOMAIN s[b].references}

\* The lowest common ancestors of the buckets that refer to ty as a Child:
\* the common ancestors that are above no other common ancestor.
LowestCommonAncestors(s, ty) ==
    LET common == {a \in DOMAIN s : \A r \in Referencers(s, ty) : a \in Ancestors(s, r)}
    IN {a \in common : \A c \in common : a \in Ancestors(s, c) => c \in Ancestors(s, a)}

\* C25: in the tree treeify returns every bucket has a place: the top level
\* for a bucket no bucket refers to as a Child, and otherwise a lowest
\* common ancestor, over Child references, of the buckets that refer to it as
\* a Child (the top level when they have no common ancestor).
C25_PlacedUnderLowestCommonAncestor ==
    tree.pc = "done" =>
        \A ty \in DOMAIN stats :
            /\ ty \in DOMAIN tree.task_placement
            /\ tree.task_placement[ty] \in
                   IF Referencers(stats, ty) = {} \/ LowestCommonAncestors(stats, ty) = {}
                   THEN {NoType}
                   ELSE LowestCommonAncestors(stats, ty)

\* C27: no call of merge and no call of treeify on a Stats built by calls of
\* add ends in a panic or in a recursion without end.
C27_MergeAndTreeifyNeverFail ==
    /\ tree.pc # "panicked"
    /\ merge_call.pc # "stack overflow"

\* The selected buckets of s that Child references lead to from the buckets
\* in set through selected buckets only, in n steps at most, and set.
RECURSIVE Folded(_, _, _, _)
Folded(s, sel, set, n) ==
    IF n = 0 THEN set
    ELSE Folded(s, sel,
                set \cup {c \in sel : \E u \in set : <<"Child", c>> \in DOMAIN s[u].references},
                n - 1)

\* The references bucket b is to have after the selected buckets sel of s
\* have been merged: its own and those of the selected buckets folded into
\* it, without the references to selected buckets.
MergedReferences(s, sel, b) ==
    UNION {{r \in DOMAIN s[u].references : r[2] \notin sel} :
              u \in Folded(s, sel, {b}, MaxTypes)}

\* C26: after merge(select) the buckets are those that were not selected,
\* none of them refers to a selected bucket, and the references of each are
\* its references to buckets not selected together with those of the
\* selected buckets that Child references led to from it, directly or
\* through further selected buckets.
C26_MergeFoldsSelected ==
    merge_call.pc = "returned" =>
        LET before == merge_call.before
            sel == merge_call.select \cap DOMAIN before
        IN /\ DOMAIN stats = DOMAIN before \ sel
           /\ \A b \in DOMAIN stats :
                  /\ \A r \in DOMAIN stats[b].references : r[2] \notin sel
                  /\ DOMAIN stats[b].references = MergedReferences(before, sel, b)

\* C26 happens: a bucket referred as a Child to a selected bucket that
\* referred as a Child to a further selected bucket, and has after the merge
\* a reference of that bucket which it did not have before.
C26_FoldedThroughTwoBuckets ==
    /\ merge_call.pc = "returned"
    /\ \E b \in DOMAIN stats, s1, s2 \in merge_call.select \cap DOMAIN merge_call.before :
           /\ s1 # s2
           /\ <<"Child", s1>> \in DOMAIN merge_call.before[b].references
           /\ <<"Child", s2>> \in DOMAIN merge_call.before[s1].references
           /\ \E r \in DOMAIN merge_call.before[s2].references :
                  /\ r \notin DOMAIN merge_call.before[b].references
                  /\ r \in DOMAIN stats[b].references

\* Whether a previous value of the slot is of the variant the written content is of.
SameVariant(previous, created) == previous # None /\ Head(previous[2]) = Head(created[2])

C29_CounterIsJobsInFlight ==
    /\ currently_scheduled_tasks = Cardinality({j \in JobIds : InFlight(j)})
    /\ currently_scheduled_tasks >= 0

\* Two jobs of a task are counted, and the task has been executed once: one
\* job runs the body, the other found the task executing, has skipped the
\* body and is at its fetch_sub.
C29_SkippedJobStillCounted ==
    \E j, k \in JobIds :
        /\ jobs[j].task = jobs[k].task
        /\ jobs[j].pc = "body"
        /\ jobs[k].pc = "dec"
        /\ hist.execs[jobs[j].task] = 1
        /\ currently_scheduled_tasks = 2

\* The tasks a list holds.
Listed(list) == {list[i] : i \in DOMAIN list}

\* C30: a job takes an entry from its notification queue only by calling
\* dependent_slot_updated on it, and the queue is empty when the job has left
\* notify_scheduled_tasks, so before it decrements the counter of jobs in
\* flight; while a job still holds a dependent to notify, or a task waits with
\* its re-run flag set, the counter is not zero.
C30_NotifiedBeforeDecrement ==
    /\ [](\A j \in JobIds :
            /\ jobs[j].pc \notin {"body", "notify"} => jobs[j].notify = <<>>
            /\ jobs[j].notify # <<>> => currently_scheduled_tasks > 0)
    /\ [](\A t \in TaskIds : dirty[t] => currently_scheduled_tasks > 0)
    /\ [][\A j \in JobIds :
            (jobs[j].notify # <<>> /\ jobs'[j].notify # jobs[j].notify /\ jobs'[j].pc # "body")
            => /\ jobs'[j].notify = Tail(jobs[j].notify)
               /\ Head(jobs[j].notify) \in Listed(jobs'[j].granted) \cup jobs'[j].covered
               /\ hist' = Requested(hist, Head(jobs[j].notify))]_vars

\* A job is at its decrement after it has notified a dependent of a slot it
\* changed; the job it scheduled for the dependent is counted already.
C30_DependentCountedFirst ==
    \E j, k \in JobIds :
        /\ jobs[j].pc = "dec"
        /\ jobs[j].granted # <<>>
        /\ jobs[k].pc = "spawned"
        /\ jobs[k].task \in Listed(jobs[j].granted)
        /\ jobs[k].caller = JobThread(j)
        /\ currently_scheduled_tasks >= 2

\* The task ids a thread is about to look up with with_task_and_tt: the task
\* of a job that has been spawned and has not passed execution_completed, the
\* entries of its notification queue, and the task a cached_call took from
\* its map or created and connects to the parent.
LookedUp ==
    {jobs[j].task : j \in {x \in JobIds : jobs[x].pc \in {"spawned", "body", "notify"}}}
    \cup UNION {Listed(jobs[j].notify) : j \in JobIds}
    \cup {calls[c].result : c \in {x \in Callers : calls[x].pc = "connect"}}

C32_ErroredJobCompletes ==
    /\ [][\A j \in JobIds :
            /\ (jobs[j].pc = "notify" /\ ~jobs[j].ok /\ jobs'[j].pc = "dec")
               => /\ jobs[j].notify = <<>>
                  /\ dependencies'[jobs[j].task] = jobs[j].reads
                  /\ state'[jobs[j].task] \in {"Errored", "Scheduled"}
            /\ (jobs[j].pc = "dec" /\ ~jobs[j].ok /\ jobs'[j].pc # "dec")
               => /\ currently_scheduled_tasks' = currently_scheduled_tasks - 1
                  /\ (currently_scheduled_tasks = 1 /\ listener.pc = "listening")
                     => listener'.pc = "woken"]_vars
    /\ (\E j \in JobIds : jobs[j].pc = "notify" /\ ~jobs[j].ok) ~> NoJob
    /\ (listener.pc = "listening" /\ listener.busy) ~> (listener.pc = "returned")

\* A job whose body changed a slot and then returned an error is at its
\* decrement: it has notified the task that had read the slot, its task is
\* Errored, and a thread waits for the completion event.
C32_ErroredJobNotified ==
    \E j \in JobIds :
        /\ jobs[j].pc = "dec"
        /\ ~jobs[j].ok
        /\ jobs[j].granted # <<>>
        /\ state[jobs[j].task] = "Errored"
        /\ listener.pc = "listening"
        /\ listener.busy

\* C33: when a job notifies the completion event, last_update holds a value:
\* start was set before the job that finds itself the last in flight could
\* read it, so the job has written last_update; a wait_done that is woken up
\* finds the value and does not fail.
C33_LastUpdateSetBeforeEvent ==
    /\ [](\A j \in JobIds : jobs[j].pc \in {"load", "store", "update"} => start)
    /\ [](\A j \in JobIds : jobs[j].pc = "event" => last_update # NoVal)
    /\ [](listener.pc = "woken" => last_update # NoVal)
    /\ [](listener.pc # "panicked")
    /\ [][\A j \in JobIds : (jobs[j].pc = "event" /\ jobs'[j].pc # "event")
                            => last_update' # NoVal]_vars

\* A job is about to notify the event while a second schedule call has made
\* its increment and has not returned, and a thread waits in wait_done.
C33_EventDuringScheduleCall ==
    \E j, k \in JobIds :
        /\ jobs[j].pc = "event"
        /\ jobs[k].pc \in {"set_start", "count"}
        /\ listener.pc = "listening"
        /\ last_update # NoVal

\* C34: a background job that has been scheduled comes to run its body: the
\* notification of the event is not missed between its first look at the
\* counter and its wait.
C34_BackgroundJobRuns ==
    \A b \in BgIds :
        (background[b].pc \in {"check", "listen", "recheck", "await"})
            ~> (background[b].pc = "run")

\* A background job found a task in flight, and the last job has notified the
\* event before the listener of the background job was registered: the
\* counter is zero, nothing is left that would notify, and the job is at its
\* second look at the counter.
C34_NotifiedBeforeListen ==
    \E b \in BgIds :
        /\ background[b].pc = "recheck"
        /\ ~background[b].notified
        /\ currently_scheduled_tasks = 0
        /\ NoJob
        /\ budget.calls = 0
        /\ ~CanSpawn

\* C35: when the watcher thread has processed a round with a Create or a
\* Remove event for a path, every invalidator that dir_invalidators held
\* under a key that starts with the key of the path has been invoked once and
\* removed, and at the end of the round the four sets of batched keys are
\* empty.
C35_RoundInvalidatesDirectories ==
    watch.round.done =>
        /\ \A path_key \in watch.round.created : \A key \in watch.round.held :
               starts_with(key, path_key) =>
                   /\ watch.round.invoked[key] = 1
                   /\ key \in watch.round.removed
        /\ watch.pc = "recv" =>
               /\ watch.batched_invalidate_path = {}
               /\ watch.batched_invalidate_path_dir = {}
               /\ watch.batched_invalidate_path_and_children = {}
               /\ watch.batched_invalidate_path_and_children_dir = {}

\* C36: the GroupTree treeify returns holds every bucket of the Stats once,
\* as the primary of a group or in a list task_types, whatever the
\* references between the buckets are.
C36_EveryBucketOnceInGroupTree ==
    tree.pc = "done" =>
        \A ty \in DOMAIN stats :
            Cardinality({i \in DOMAIN tree.group : tree.group[i] = ty}) = 1

\* C37: every call of merge returns and every call of treeify leaves its
\* loop, also when the Child references between the selected buckets form a
\* cycle or a bucket refers to itself as a Child: no merge is in a recursion
\* that does not end, and a treeify in its loop has a next step, which takes
\* an entry from the queue or ends the loop.
C37_MergeAndTreeifyTerminate ==
    /\ merge_call.pc \in {"idle", "returned"}
    /\ tree.pc = "loop" => ENABLED (treeify_pop \/ treeify_group)

\* C38: for two values behind &dyn MagicAny, magic_eq is false when their
\* concrete types differ and the equality of the type when they agree;
\* magic_cmp gives Equal exactly when magic_eq holds; magic_cmp of the two
\* in the other order gives the reverse, also for values of different types;
\* and values that are magic_eq write the same to the hasher.
C38_MagicAnyEqCmpHashAgree ==
    LET a == magic.a[2]
        b == magic.b[2]
    IN
    /\ magic.eq # None =>
          /\ a.ty # b.ty => ~magic.eq[2][1]
          /\ a.ty = b.ty => (magic.eq[2][1] <=> T_eq(a.ty, a.value, b.value))
    /\ magic.eq # None /\ magic.cmp # None =>
          /\ magic.cmp[2][1] = "Equal" <=> magic.eq[2][1]
          /\ magic.cmp[2][2] = "Equal" <=> magic.eq[2][2]
    /\ magic.cmp # None => magic.cmp[2][1] = reverse(magic.cmp[2][2])
    /\ magic.eq # None /\ magic.hash # None =>
          (magic.eq[2][1] => magic.hash[2][1] = magic.hash[2][2])

\* C38 happens: a u8 and a Reverse<u8> with the same payload have been
\* compared in both orders and hashed, and they are not Equal.
C38_SamePayloadOtherType ==
    /\ magic.eq # None /\ magic.cmp # None /\ magic.hash # None
    /\ magic.a[2].ty = "u8" /\ magic.b[2].ty = "Reverse<u8>"
    /\ magic.a[2].value = magic.b[2].value
    /\ magic.cmp[2][1] # "Equal"

\* C39: with_retry never calls func more than 11 times; what it returns is
\* the result of its last call; it has made one call when the first result
\* was Ok or an error that is neither PermissionDenied nor WouldBlock; and
\* every call before the last gave PermissionDenied or WouldBlock, so it
\* stopped at the first result that is Ok or another error.
C39_WithRetryReturnsLastResult ==
    /\ Len(retry.seen) <= 11
    /\ retry.pc = "returned" =>
          /\ retry.returned = Some(retry.seen[Len(retry.seen)])
          /\ retry.seen[1] \notin {"PermissionDenied", "WouldBlock"} => Len(retry.seen) = 1
          /\ \A k \in 1..(Len(retry.seen) - 1) :
                 retry.seen[k] \in {"PermissionDenied", "WouldBlock"}
          /\ retry.seen[Len(retry.seen)] \in {"PermissionDenied", "WouldBlock"} =>
                 Len(retry.seen) = 11

\* C39 happens: eleven calls gave errors that can be retried and with_retry
\* has returned the last of them; a twelfth call was never made.
C39_ElevenCallsThenError ==
    /\ retry.pc = "returned"
    /\ Len(retry.seen) = 11
    /\ retry.returned = Some("WouldBlock")
    /\ retry.seen[1] = "PermissionDenied"

=============================================================================
